---- MODULE Spec2Model ----
(***************************************************************************)
(* Model of the content scraper of english-classplanner-mvp:               *)
(* scraper/scrapers/BaseScraper.js, BreakingNewsScraper.js,                *)
(* BritishCouncilScraper.js and scraper/index.js (runAll).                 *)
(*                                                                         *)
(* The scraper is one thread of control.  Every action below is the code   *)
(* between two awaits of that thread; pc, rpc and fpc hold its position in *)
(* runAll, in the adapter's run/scrape and in fetchPage.                   *)
(*                                                                         *)
(* What the network answers is the input of the model: whether a browser   *)
(* call rejects, and what the fetched document holds.  page.close() and    *)
(* browser.close() are taken to resolve.                                   *)
(*                                                                         *)
(* A URL is the sequence of its segments, host first; an href is that with *)
(* the way it is written (absolute, or relative to the site).  A text is   *)
(* its length and the marked terms that occur in it; toLowerCase and       *)
(* includes work on those terms.                                           *)
(***************************************************************************)
EXTENDS Integers, Sequences, FiniteSets, TLC

VARIABLES
  entry,          \* what was invoked: "runAll", or one adapter method called directly
  pc,             \* position in runAll
  idx,            \* runAll: index of the scraper being run
  results,        \* runAll: the RunResult being built
  runLog,         \* runAll: the scrapers whose run() was called, in order
  artifact,       \* content.json on disk
  cur,            \* the adapter whose method runs
  rpc,            \* position in the adapter's run / scrape / discovery
  runRet,         \* what run() handed back to its caller
  err,            \* message of the exception being thrown
  browser,        \* this.browser # null, per adapter
  context,        \* this.context # null, per adapter
  launched,       \* browsers launched so far, per adapter
  closed,         \* browser.close() calls so far, per adapter
  fpc,            \* position in fetchPage
  openPages,      \* pages open in the browser
  limit,          \* the limit discovery was called with
  articles,       \* discovery: the references found so far
  usable,         \* discovery: how many references the listing pages gave (-1: not ended)
  li,             \* BritishCouncil discovery: index of the level page
  si,             \* BritishCouncil discovery: index of the selector
  i,              \* scrape: index of the reference being extracted
  scrapeResults,  \* scrape: the items extracted so far
  lastDoc,        \* scrapeArticle: the document it parsed last
  attempts,       \* scrape: what each scrapeArticle call so far returned, or that it threw
  argv,           \* process.argv.slice(2)
  exitCode,       \* the status process.exit was called with (-1: not called)
  listed,         \* 'Available scrapers: ...' was printed
  singleFile,     \* content-<name>.json on disk
  writes,         \* fs.writeFile calls so far
  writeFailed,    \* the last fs.writeFile rejected
  unslept,        \* the adapter that called page.goto since the last sleep ("none": none did)
  gap,            \* the last page.goto: what came since the one before it
  input,          \* the arguments of a function called directly
  output          \* what that function returned

orchVars  == <<entry, pc, idx, results, runLog, artifact>>
runVars   == <<cur, rpc, runRet, err>>
browVars  == <<browser, context, launched, closed>>
fetchVars == <<fpc, openPages>>
discVars  == <<limit, articles, usable, li, si>>
scrVars   == <<i, scrapeResults, lastDoc, attempts>>
cliVars   == <<argv, exitCode, listed, singleFile, writes, writeFailed>>
delayVars == <<unslept, gap>>
callVars  == <<input, output>>
vars == <<orchVars, runVars, browVars, fetchVars, discVars, scrVars, cliVars, delayVars,
          callVars>>

(***************************************************************************)
(* Bounds of the model.                                                    *)
(***************************************************************************)
MaxExcerpts == 4      \* longest BreakingNews listing page
MaxLimit == 4         \* largest limit a direct discovery call is given
MaxLinks == 2         \* most links one selector matches on a listing page

(***************************************************************************)
(* Program constants.                                                      *)
(***************************************************************************)
ScrapeLimit == 3           \* getReadingArticles(3), getLatestArticles(3)
MaxBody == 5000            \* body.substring(0, 5000)
BCMaxExercises == 10       \* exercises.slice(0, 10)
BNMaxExercises == 20       \* vocabulary.slice(0, 20)
MaxOptions == 4            \* options.slice(0, 4)

BN == "BreakingNewsEnglish"
BC == "BritishCouncil"
Adapters == {BN, BC}

\* index.js: const scrapers = [ BreakingNewsEnglish, BritishCouncil ]
scrapers == <<BN, BC>>

BNHost == "breakingnewsenglish.com"
BCHost == "learnenglish.britishcouncil.org"

Min(a, b) == IF a < b THEN a ELSE b

Last(s) == s[Len(s)]

\* Array.prototype.slice(0, n)
Slice(s, n) == SubSeq(s, 1, Min(n, Len(s)))

(***************************************************************************)
(* Texts, hrefs and URLs                                                   *)
(***************************************************************************)

\* A text, trimmed: its length and the marked terms that occur in it,
\* written as they occur.
Txt(n, terms) == [len |-> n, has |-> terms]
NoText == Txt(0, {})

\* a string in a condition: the empty string is falsy
Truthy(t) == t.len > 0

\* String.prototype.toLowerCase, on the marked terms
Lower(term) ==
  CASE term = "Access Denied" -> "access denied"
    [] term = "BLOCKED"       -> "blocked"
    [] term = "Forbidden"     -> "forbidden"
    [] term = "Copyright"     -> "copyright"
    [] term = "Next"          -> "next"
    [] term = "Home"          -> "home"
    [] term = "Climate"       -> "climate"
    [] term = "CLIMATE"       -> "climate"
    [] OTHER                  -> term

\* text.includes(term)
includes(t, term) == term \in t.has

\* text.toLowerCase().includes(term)
lowerIncludes(t, term) == \E u \in t.has : Lower(u) = term

\* An href as written: "http" (absolute, segs start with the host), "root"
\* (starts with a slash), "rel" (any other), or "none" (no href attribute).
Href(form, segs) == [form |-> form, segs |-> segs]
NoHref == Href("none", <<>>)
HasHref(h) == h.form # "none"

(***************************************************************************)
(* BaseScraper                                                             *)
(***************************************************************************)

\* formatResult(data): the six fields it copies, each with its default;
\* scrapedAt is the clock and is left out.  No other field of data is kept.
formatResult(name, data) ==
  [source    |-> name,
   level     |-> IF data.level # "" THEN data.level ELSE "Unknown",
   title     |-> IF Truthy(data.title) THEN data.title ELSE Txt(8, {}),
   body      |-> data.body,
   exercises |-> data.exercises]

\* initBrowser(): chromium.launch, then browser.newContext.  out says which
\* of the two rejects, if any.
InitOutcomes == {"ok", "launch", "newContext"}

InitMessage(out) ==
  IF out = "launch" THEN "browserType.launch failed" ELSE "browser.newContext failed"

initBrowser(a, out) ==
  /\ browser'  = [browser EXCEPT ![a] = IF out = "launch" THEN @ ELSE TRUE]
  /\ launched' = [launched EXCEPT ![a] = IF out = "launch" THEN @ ELSE @ + 1]
  /\ context'  = [context EXCEPT ![a] = IF out = "ok" THEN TRUE ELSE @]

\* closeBrowser() as it would be if it tested this.context, which is still
\* null when browser.newContext rejected
closeBrowserIfContext(a) ==
  IF context[a]
    THEN /\ closed'  = [closed EXCEPT ![a] = @ + 1]
         /\ browser' = [browser EXCEPT ![a] = FALSE]
         /\ context' = [context EXCEPT ![a] = FALSE]
    ELSE UNCHANGED <<closed, browser, context>>

\* closeBrowser(): a no-op when this.browser is null
closeBrowser(a) ==
  IF browser[a]
    THEN /\ closed'  = [closed EXCEPT ![a] = @ + 1]
         /\ browser' = [browser EXCEPT ![a] = FALSE]
         /\ context' = [context EXCEPT ![a] = FALSE]
    ELSE UNCHANGED <<closed, browser, context>>

\* run() was called, by runAll or by runSingle
InRun == entry \in {"runAll", "runSingle"}

\* Where control goes when discovery, scrape or scrapeArticle ends, by caller.
ThrowFromScrape == IF InRun THEN "run_catch" ELSE "threw"
ReturnFromScrape == IF InRun THEN "run_close" ELSE "done"

(***************************************************************************)
(* fetchPage(url).  A caller sets fpc to "call"; fetchPage ends with fpc   *)
(* "returned" (the parsed document is handed back) or "threw" (err holds   *)
(* the message), and the caller's continuation resets it.                  *)
(***************************************************************************)

\* lines 640-642: if (!this.context) await this.initBrowser()
FetchInit ==
  /\ fpc = "call" /\ ~context[cur]
  /\ \E out \in InitOutcomes:
       /\ initBrowser(cur, out)
       /\ fpc' = IF out = "ok" THEN "call" ELSE "threw"
       /\ err' = IF out = "ok" THEN err ELSE InitMessage(out)
  /\ UNCHANGED <<orchVars, cliVars, delayVars, callVars, cur, rpc, runRet, closed, openPages, discVars, scrVars>>

\* line 646: const page = await this.context.newPage()   (outside the try)
FetchNewPage ==
  /\ fpc = "call" /\ context[cur]
  /\ \E ok \in BOOLEAN:
       /\ fpc' = IF ok THEN "opened" ELSE "threw"
       /\ openPages' = IF ok THEN openPages + 1 ELSE openPages
       /\ err' = IF ok THEN err ELSE "context.newPage failed"
  /\ UNCHANGED <<orchVars, cliVars, delayVars, callVars, cur, rpc, runRet, browVars, discVars, scrVars>>

\* lines 648-659: goto, waitForTimeout, content, cheerio.load; out names the
\* call that throws, if any.  gap records whether a sleep came since the
\* page.goto before this one, and which adapter that one was of.
LoadOutcomes == {"ok", "goto", "waitForTimeout", "content", "load"}

LoadMessage(out) ==
  CASE out = "goto"           -> "page.goto: Timeout 30000ms exceeded"
    [] out = "waitForTimeout" -> "page.waitForTimeout: Target closed"
    [] out = "content"        -> "page.content: Target closed"
    [] OTHER                  -> "cheerio.load failed"

FetchLoad ==
  /\ fpc = "opened"
  /\ \E out \in LoadOutcomes:
       /\ fpc' = IF out = "ok" THEN "try_close" ELSE "catch_close"
       /\ err' = IF out = "ok" THEN err ELSE LoadMessage(out)
  /\ gap' = IF unslept = "none" THEN "slept" ELSE IF unslept = cur THEN "same" ELSE "other"
  /\ unslept' = cur
  /\ UNCHANGED <<orchVars, cliVars, callVars, cur, rpc, runRet, browVars, openPages, discVars,
                 scrVars>>

\* lines 661-663: await page.close(); return $
FetchReturn ==
  /\ fpc = "try_close"
  /\ openPages' = openPages - 1
  /\ fpc' = "returned"
  /\ UNCHANGED <<orchVars, cliVars, delayVars, callVars, runVars, browVars, discVars, scrVars>>

\* the catch of fetchPage as it would be without its page.close()
FetchThrowLeak ==
  /\ fpc = "catch_close"
  /\ fpc' = "threw"
  /\ UNCHANGED <<orchVars, cliVars, delayVars, callVars, runVars, browVars, openPages, discVars, scrVars>>

\* lines 664-667: catch (error) { await page.close(); throw error }
FetchThrow ==
  /\ fpc = "catch_close"
  /\ openPages' = openPages - 1
  /\ fpc' = "threw"
  /\ UNCHANGED <<orchVars, cliVars, delayVars, callVars, runVars, browVars, discVars, scrVars>>

(***************************************************************************)
(* BaseScraper.run()                                                       *)
(***************************************************************************)

\* line 700: await this.initBrowser()
RunInit ==
  /\ rpc = "run_init"
  /\ \E out \in InitOutcomes:
       /\ initBrowser(cur, out)
       /\ rpc' = IF out = "ok" THEN "scrape" ELSE "run_catch"
       /\ err' = IF out = "ok" THEN err ELSE InitMessage(out)
  /\ UNCHANGED <<orchVars, cliVars, delayVars, callVars, cur, runRet, closed, fetchVars, discVars, scrVars>>

\* the return of run() as it would be without its closeBrowser()
RunReturnOpen ==
  /\ rpc = "run_close"
  /\ runRet' = [kind |-> "value", data |-> scrapeResults]
  /\ rpc' = "run_done"
  /\ UNCHANGED <<orchVars, cliVars, delayVars, callVars, cur, err, browVars, fetchVars, discVars, scrVars>>

\* lines 702-705: await this.closeBrowser(); return results
RunReturn ==
  /\ rpc = "run_close"
  /\ closeBrowser(cur)
  /\ runRet' = [kind |-> "value", data |-> scrapeResults]
  /\ rpc' = "run_done"
  /\ UNCHANGED <<orchVars, cliVars, delayVars, callVars, cur, err, launched, fetchVars, discVars, scrVars>>

\* lines 706-710: catch (error) { await this.closeBrowser(); return null }
RunCatch ==
  /\ rpc = "run_catch"
  /\ closeBrowser(cur)
  /\ runRet' = [kind |-> "null"]
  /\ rpc' = "run_done"
  /\ UNCHANGED <<orchVars, cliVars, delayVars, callVars, cur, err, launched, fetchVars, discVars, scrVars>>

(***************************************************************************)
(* BreakingNewsScraper                                                     *)
(***************************************************************************)

\* lines 368, 378: href.startsWith('http') ? href : `${this.baseUrl}/${href}`
\* (an href that starts with a slash gives a double slash: an empty segment)
BNResolve(h) ==
  CASE h.form = "http" -> h.segs
    [] h.form = "root" -> <<BNHost, "">> \o h.segs
    [] OTHER           -> <<BNHost>> \o h.segs

\* lines 362-371: the level links of one excerpt
RECURSIVE BNLevels(_)
BNLevels(els) ==
  IF els = <<>> THEN <<>>
  ELSE LET el == Head(els)
           rest == BNLevels(Tail(els))
       IN IF HasHref(el.href) /\ el.text # ""
            THEN <<[level |-> el.text, url |-> BNResolve(el.href)]>> \o rest
            ELSE rest

\* lines 352-388: $('.lesson-excerpt').each(...)
RECURSIVE BNEach(_, _, _)
BNEach(els, acc, lim) ==
  IF els = <<>> \/ Len(acc) >= lim THEN acc
  ELSE LET el == Head(els)
           ref == [url         |-> BNResolve(el.href),
                   title       |-> el.title,
                   description |-> el.description,
                   difficulty  |-> el.difficulty,
                   levels      |-> BNLevels(el.levels)]
       IN BNEach(Tail(els),
                 IF HasHref(el.href) /\ Truthy(el.title) THEN Append(acc, ref) ELSE acc,
                 lim)

\* getLatestArticles(limit), after the listing page was fetched
getLatestArticles(page, lim) == BNEach(page, <<>>, lim)

\* url.match(/-(\d)\.html$/): the digit the last segment ends with, as
\* "-<digit>.html", or "" when it does not
SegDigit(seg) ==
  CASE seg = "a-3.html" -> "3"
    [] seg = "b-0.html" -> "0"
    [] seg = "a-6.html" -> "6"
    [] OTHER            -> ""

\* the length of texts.join('\n\n')
RECURSIVE SumLen(_)
SumLen(texts) == IF texts = <<>> THEN 0 ELSE Head(texts).len + SumLen(Tail(texts))

JoinLen(texts) == IF texts = <<>> THEN 0 ELSE SumLen(texts) + 2 * (Len(texts) - 1)

\* substring as it would be if it cut nothing
substringWhole(body, n) == body

\* A body: the texts joined into it and its length in characters, which
\* substring(0, n) cuts.
Body(texts) == [parts |-> texts, len |-> JoinLen(texts)]
substring(body, n) == [body EXCEPT !.len = Min(@, n)]

\* lines 428-433: the paragraphs kept
BNKeepParagraph(text) ==
  /\ text.len > 80
  /\ ~includes(text, "©")
  /\ ~includes(text, "Click")
  /\ ~includes(text, "Subscribe")
  /\ ~includes(text, "Help this site")
  /\ ~lowerIncludes(text, "copyright")

\* lines 443-450: $('div').each(...), body being replaced by a longer div
RECURSIVE BNDivs(_, _)
BNDivs(divs, body) ==
  IF divs = <<>> THEN body
  ELSE LET text == Head(divs)
       IN BNDivs(Tail(divs),
                 IF text.len > 300 /\ text.len < 3000 /\ ~includes(text, "©")
                    /\ text.len > body.len
                   THEN Body(<<text>>) ELSE body)

\* lines 421-451
BNBody(doc) ==
  LET body == Body(SelectSeq(doc.paragraphs, BNKeepParagraph))
  IN IF body.len < 200 THEN BNDivs(doc.divs, body) ELSE body

\* A bold word: its text, that lower-cased, its length, its number of
\* space-separated words, and which of the tests of lines 475-480 it fails.
\* lines 473-481
BNKeepWord(word) ==
  /\ word.len > 2
  /\ word.len < 25
  /\ word.fails = {}
  /\ word.words <= 2

\* lines 468-490: $('strong, b').each(...)
RECURSIVE BNBolds(_, _)
BNBolds(els, vocabulary) ==
  IF els = <<>> THEN vocabulary
  ELSE LET word == Head(els)
       IN BNBolds(Tail(els),
                  IF BNKeepWord(word)
                     /\ ~\E k \in 1..Len(vocabulary) : vocabulary[k].lower = word.lower
                    THEN Append(vocabulary, [word |-> word.text, lower |-> word.lower,
                                             definition |-> ""])
                    ELSE vocabulary)

\* lines 493-502: $('table tr').each(...); a row is its cells' texts
RECURSIVE BNRows(_, _)
BNRows(rows, vocabulary) ==
  IF rows = <<>> THEN vocabulary
  ELSE LET cells == Head(rows)
       IN BNRows(Tail(rows),
                 IF Len(cells) >= 2 /\ Truthy(cells[1]) /\ Truthy(cells[2])
                    /\ cells[1].len < 30
                   THEN Append(vocabulary, [word |-> cells[1], lower |-> cells[1],
                                            definition |-> cells[2]])
                   ELSE vocabulary)

RECURSIVE BNExercises(_)
BNExercises(vocabulary) ==
  IF vocabulary = <<>> THEN <<>>
  ELSE <<[type |-> "vocabulary", word |-> Head(vocabulary).word,
          definition |-> Head(vocabulary).definition]>> \o BNExercises(Tail(vocabulary))

\* lines 399-401: the URL scrapeArticle fetches
BNArticleUrl(articleInfo) ==
  IF Len(articleInfo.levels) > 0 THEN articleInfo.levels[1].url ELSE articleInfo.url

\* lines 412-418
BNLevel(articleInfo) ==
  LET digit == SegDigit(Last(BNArticleUrl(articleInfo)))
  IN IF digit # "" THEN "Level " \o digit
     ELSE IF Len(articleInfo.levels) > 0 THEN articleInfo.levels[1].level
     ELSE "Unknown"

\* lines 406-409
BNTitle(articleInfo, doc) ==
  IF Truthy(articleInfo.title) THEN articleInfo.title
  ELSE IF Truthy(doc.h1) THEN doc.h1
  ELSE IF Truthy(doc.titleTag) THEN doc.titleTag
  ELSE Txt(16, {})

\* scrapeArticle(articleInfo), after the page was fetched
BNScrapeArticle(articleInfo, doc) ==
  formatResult(BN,
    [title     |-> BNTitle(articleInfo, doc),
     level     |-> BNLevel(articleInfo),
     body      |-> substring(BNBody(doc), MaxBody),
     exercises |-> BNExercises(Slice(BNRows(doc.rows, BNBolds(doc.bolds, <<>>)),
                                     BNMaxExercises))])

(***************************************************************************)
(* BritishCouncilScraper                                                   *)
(***************************************************************************)

\* lines 18-24: Object.entries(this.levelUrls), in order
BCLevels == <<"A1", "A2", "B1", "B2", "C1">>

\* lines 80-86: the selectors tried on a level page
BCNumSelectors == 5

\* lines 104-107
BCResolve(h) ==
  IF h.form = "http" THEN h.segs ELSE <<BCHost>> \o h.segs

\* fullUrl.includes('/reading/')
HasReadingSegment(url) == \E k \in 1..(Len(url) - 1) : url[k] = "reading"

\* fullUrl.endsWith('/reading') || fullUrl.endsWith('-reading')
EndsWithReading(url) ==
  Last(url) \in {"reading", "a1-reading", "a2-reading", "b1-reading",
                 "b2-reading", "c1-reading"}

\* lines 96-102: the link texts kept
BCKeepText(text) ==
  /\ Truthy(text)
  /\ text.len > 5
  /\ text.len < 150
  /\ ~lowerIncludes(text, "next")
  /\ ~lowerIncludes(text, "previous")
  /\ ~lowerIncludes(text, "home")
  /\ ~lowerIncludes(text, "back")

\* lines 89-121: $(selector).each(...) on the page of one level
RECURSIVE BCEach(_, _, _, _)
BCEach(els, acc, lim, level) ==
  IF els = <<>> \/ Len(acc) >= lim THEN acc
  ELSE LET el == Head(els)
           fullUrl == BCResolve(el.href)
           keep == /\ HasHref(el.href)
                   /\ BCKeepText(el.text)
                   /\ ~\E k \in 1..Len(acc) : acc[k].url = fullUrl
                   /\ HasReadingSegment(fullUrl)
                   /\ ~EndsWithReading(fullUrl)
       IN BCEach(Tail(els),
                 IF keep
                   THEN Append(acc, [url   |-> fullUrl,
                                     title |-> [el.text EXCEPT !.len = Min(@, 100)],
                                     level |-> level])
                   ELSE acc,
                 lim, level)

\* lines 134-150: the hard-coded references
BCFallback ==
  << [url   |-> <<BCHost, "skills", "reading", "a2-reading", "a-message-to-a-new-colleague">>,
      title |-> Txt(28, {}), level |-> "A2"],
     [url   |-> <<BCHost, "skills", "reading", "b1-reading", "an-email-from-a-friend">>,
      title |-> Txt(22, {}), level |-> "B1"],
     [url   |-> <<BCHost, "skills", "reading", "a1-reading", "business-cards">>,
      title |-> Txt(14, {}), level |-> "A1"] >>

\* the end of getReadingArticles as it would be without slice(0, limit)
BCDiscoveredNoSlice(found, lim) ==
  IF Len(found) = 0 THEN BCFallback ELSE found

\* lines 132-154: what getReadingArticles returns once the level loop ended
BCDiscovered(found, lim) ==
  Slice(IF Len(found) = 0 THEN BCFallback ELSE found, lim)

\* articleInfo.url.match(/([abc][12])/i), upper-cased: the first CEFR code
\* in the URL, "" when there is none
SegCefr(seg) ==
  CASE seg = "a1-reading" -> "A1"
    [] seg = "a2-reading" -> "A2"
    [] seg = "b1-reading" -> "B1"
    [] seg = "b2-reading" -> "B2"
    [] seg = "c1-reading" -> "C1"
    [] OTHER              -> ""

RECURSIVE UrlCefr(_)
UrlCefr(url) ==
  IF url = <<>> THEN ""
  ELSE IF SegCefr(Head(url)) # "" THEN SegCefr(Head(url)) ELSE UrlCefr(Tail(url))

\* lines 164-168
BCTitle(articleInfo, doc) ==
  IF Truthy(doc.h1) THEN doc.h1
  ELSE IF Truthy(doc.pageTitle) THEN doc.pageTitle
  ELSE IF Truthy(doc.titleTag) THEN doc.titleTag
  ELSE IF Truthy(articleInfo.title) THEN articleInfo.title
  ELSE Txt(16, {})

\* lines 171-173
BCIsBlocked(title) ==
  \/ lowerIncludes(title, "access denied")
  \/ lowerIncludes(title, "blocked")
  \/ lowerIncludes(title, "forbidden")

\* line 178: the body of a blocked item
BCBlockedBody == Body(<<Txt(102, {"[BLOCKED]"})>>)

\* lines 185-193
BCLevel(articleInfo) ==
  LET level == IF articleInfo.level # "" THEN articleInfo.level ELSE "Unknown"
  IN IF level = "Unknown" /\ UrlCefr(articleInfo.url) # ""
       THEN UrlCefr(articleInfo.url) ELSE level

\* lines 216-219: the paragraphs kept
BCKeepParagraph(text) ==
  /\ text.len > 30
  /\ ~includes(text, "Log in")
  /\ ~includes(text, "Sign up")
  /\ ~includes(text, "©")

\* lines 210-230: doc.content[k] holds the paragraphs contentSelectors[k] matches
RECURSIVE BCContent(_)
BCContent(content) ==
  IF content = <<>> THEN Body(<<>>)
  ELSE LET texts == SelectSeq(Head(content), BCKeepParagraph)
       IN IF Len(texts) > 0 THEN Body(texts) ELSE BCContent(Tail(content))

BCLongParagraph(text) == text.len > 30

\* lines 233-241
BCMainFallback(doc, body) ==
  IF body.len < 100 /\ doc.main.found
    THEN Body(SelectSeq(doc.main.paragraphs, BCLongParagraph))
    ELSE body

BCBody(doc) == BCMainFallback(doc, BCContent(doc.content))

BCKeepOption(text) == Truthy(text) /\ text.len < 200

\* lines 257-276: $(selector).each(...) for one question selector
RECURSIVE BCQuestionEach(_)
BCQuestionEach(els) ==
  IF els = <<>> THEN <<>>
  ELSE LET el == Head(els)
           rest == BCQuestionEach(Tail(els))
       IN IF el.text.len > 10 /\ el.text.len < 500
            THEN <<[type     |-> "comprehension",
                    question |-> [el.text EXCEPT !.len = Min(@, 200)],
                    options  |-> Slice(SelectSeq(el.options, BCKeepOption), MaxOptions)]>>
                 \o rest
            ELSE rest

\* lines 256-279: doc.questions[k] holds the elements questionSelectors[k] matches
RECURSIVE BCQuestions(_)
BCQuestions(questions) ==
  IF questions = <<>> THEN <<>>
  ELSE LET exercises == BCQuestionEach(Head(questions))
       IN IF Len(exercises) > 0 THEN exercises ELSE BCQuestions(Tail(questions))

\* lines 283-294: $('.task, .exercise, [class*="task"]').each(...)
RECURSIVE BCTasks(_)
BCTasks(els) ==
  IF els = <<>> THEN <<>>
  ELSE LET el == Head(els)
           rest == BCTasks(Tail(els))
       IN IF Truthy(el.instruction) \/ Truthy(el.content)
            THEN <<[type        |-> "task",
                    instruction |-> IF Truthy(el.instruction) THEN el.instruction
                                    ELSE Txt(12, {}),
                    description |-> [el.content EXCEPT !.len = Min(@, 300)]]>> \o rest
            ELSE rest

\* lines 244-295
BCExercises(doc) ==
  LET exercises == BCQuestions(doc.questions)
  IN IF Len(exercises) = 0 THEN BCTasks(doc.tasks) ELSE exercises

\* lines 175-181: the data scrapeArticle hands to formatResult when blocked
BCBlockedData(articleInfo) ==
  [title     |-> IF Truthy(articleInfo.title) THEN articleInfo.title ELSE Txt(14, {}),
   level     |-> IF articleInfo.level # "" THEN articleInfo.level ELSE "Unknown",
   body      |-> BCBlockedBody,
   exercises |-> <<>>,
   blocked   |-> TRUE]

\* scrapeArticle(articleInfo), after the page was fetched
BCScrapeArticle(articleInfo, doc) ==
  LET title == BCTitle(articleInfo, doc)
  IN IF BCIsBlocked(title)
       THEN formatResult(BC, BCBlockedData(articleInfo))
       ELSE formatResult(BC,
              [title     |-> title,
               level     |-> BCLevel(articleInfo),
               body      |-> substring(BCBody(doc), MaxBody),
               exercises |-> Slice(BCExercises(doc), BCMaxExercises)])

(***************************************************************************)
(* What the sites answer: the listing pages and documents considered.      *)
(* Within a run a few of each; for a method called directly, more.         *)
(***************************************************************************)

\* all sequences over S of length at most n
RECURSIVE SeqsUpTo(_, _)
SeqsUpTo(S, n) ==
  IF n = 0 THEN {<<>>}
  ELSE LET shorter == SeqsUpTo(S, n - 1)
       IN shorter \cup {Append(q, x) : q \in shorter, x \in S}

\* n copies of x
Rep(x, n) == [k \in 1..n |-> x]

\* .lesson-excerpt elements of the BreakingNews front page
ExA == [href        |-> Href("rel", <<"2401", "a.html">>),
        title       |-> Txt(24, {}),
        levels      |-> <<[href |-> Href("rel", <<"2401", "a-3.html">>), text |-> "Level 3"],
                          [href |-> NoHref, text |-> "Level 4"]>>,
        description |-> Txt(90, {}),
        difficulty  |-> Txt(6, {})]
ExB == [href        |-> Href("http", <<BNHost, "2401", "b.html">>),
        title       |-> Txt(31, {}),
        levels      |-> <<>>,
        description |-> NoText,
        difficulty  |-> NoText]
\* the link of ExA written as an absolute URL, its level link without a digit
ExAabs == [ExA EXCEPT !.href = Href("http", <<BNHost, "2401", "a.html">>),
                      !.levels = <<[href |-> Href("root", <<"2401", "a.html">>),
                                    text |-> "Harder"]>>]
ExNoHref == [ExA EXCEPT !.href = NoHref]
ExNoTitle == [ExB EXCEPT !.title = NoText]

BNExcerpts == IF InRun THEN {ExA, ExB}
              ELSE {ExA, ExB, ExAabs, ExNoHref, ExNoTitle}

BNPages == SeqsUpTo(BNExcerpts, MaxExcerpts)

\* a elements of a BritishCouncil level page
LinkX == [href |-> Href("root", <<"skills", "reading", "a1-reading", "x">>),
          text |-> Txt(20, {})]
LinkXrel == [href |-> Href("rel", <<"skills", "reading", "a1-reading", "x">>),
             text |-> Txt(120, {})]
LinkY == [href |-> Href("http", <<BCHost, "skills", "reading", "b1-reading", "y">>),
          text |-> Txt(149, {})]
LinkZ == [href |-> Href("root", <<"skills", "reading", "c1-reading", "z">>),
          text |-> Txt(6, {})]
\* a link to a level page, a link off the reading section, a navigation
\* link, a link without text
LinkLevel == [href |-> Href("root", <<"skills", "reading", "a2-reading">>),
              text |-> Txt(10, {})]
LinkAbout == [href |-> Href("root", <<"about">>), text |-> Txt(8, {})]
LinkNext == [href |-> Href("root", <<"skills", "reading", "a1-reading", "n">>),
             text |-> Txt(9, {"Next"})]
LinkShort == [href |-> Href("root", <<"skills", "reading", "a1-reading", "s">>),
              text |-> Txt(5, {})]

BCLinks == {LinkX, LinkXrel, LinkY, LinkZ, LinkLevel, LinkAbout, LinkNext, LinkShort}

\* what one selector matches on a level page
BCMatches == IF InRun THEN {<<>>, <<LinkX>>, <<LinkX, LinkY>>, <<LinkLevel>>}
             ELSE SeqsUpTo(BCLinks, MaxLinks)

\* bold words of a BreakingNews article: kept, the same in capitals, too
\* long, starting with a digit, three words
WordA == [text |-> "tariff", lower |-> "tariff", len |-> 6, words |-> 1, fails |-> {}]
WordACaps == [text |-> "Tariff", lower |-> "tariff", len |-> 6, words |-> 1, fails |-> {}]
WordLong == [text |-> "a-very-long-compound-word-x", lower |-> "a-very-long-compound-word-x",
             len |-> 27, words |-> 1, fails |-> {}]
WordDigit == [text |-> "2024", lower |-> "2024", len |-> 4, words |-> 1, fails |-> {"digit"}]
WordThree == [text |-> "one two three", lower |-> "one two three", len |-> 13, words |-> 3,
              fails |-> {}]

BNDocPlain ==
  [h1 |-> Txt(24, {}), titleTag |-> Txt(24, {}),
   paragraphs |-> <<Txt(400, {}), Txt(350, {})>>,
   divs |-> <<>>, bolds |-> <<WordA>>, rows |-> <<>>]

BNParagraphChoices ==
  { <<>>,
    <<Txt(40, {}), Txt(40, {"Subscribe"})>>,
    <<Txt(81, {}), Txt(81, {"Subscribe"})>>,
    <<Txt(80, {}), Txt(120, {"©"}), Txt(100, {"Click"}), Txt(90, {"Help this site"})>>,
    <<Txt(400, {}), Txt(90, {"Copyright"})>>,
    <<Txt(2600, {}), Txt(2600, {})>> }

BNDivChoices ==
  { <<>>,
    <<Txt(350, {}), Txt(2999, {}), Txt(500, {})>>,
    <<Txt(300, {}), Txt(3000, {})>>,
    <<Txt(301, {"©"})>> }

BNBoldChoices == { <<>>, <<WordA, WordACaps, WordLong, WordDigit, WordThree>> }

BNRowChoices ==
  { <<>>,
    Rep(<<Txt(8, {}), Txt(30, {})>>, BNMaxExercises + 1),
    << <<Txt(8, {})>>, <<Txt(30, {}), Txt(5, {})>>, <<Txt(8, {}), NoText>> >> }

BNDocs ==
  IF InRun THEN {BNDocPlain}
  ELSE { [h1 |-> h, titleTag |-> Txt(24, {}), paragraphs |-> p, divs |-> d,
          bolds |-> b, rows |-> r] :
           h \in {NoText, Txt(24, {})}, p \in BNParagraphChoices, d \in BNDivChoices,
           b \in BNBoldChoices, r \in BNRowChoices }

\* lines 199-208 and 247-254: the numbers of selectors tried
BCNumContentSelectors == 8
BCNumQuestionSelectors == 6

\* k-th of n selectors matches els, the others nothing
OnlySelector(k, n, els) == [j \in 1..n |-> IF j = k THEN els ELSE <<>>]

QuestionPlain == [text |-> Txt(60, {}), options |-> <<Txt(12, {}), Txt(15, {})>>]
QuestionFive == [text |-> Txt(499, {}),
                 options |-> <<Txt(12, {}), NoText, Txt(200, {}), Txt(15, {}), Txt(9, {}),
                               Txt(199, {}), Txt(3, {})>>]
QuestionShort == [text |-> Txt(10, {}), options |-> <<>>]

BCDocPlain ==
  [h1 |-> Txt(30, {}), pageTitle |-> NoText, titleTag |-> Txt(30, {}),
   content |-> OnlySelector(1, BCNumContentSelectors, <<Txt(200, {}), Txt(300, {})>>),
   main |-> [found |-> TRUE, paragraphs |-> <<Txt(200, {}), Txt(300, {})>>],
   questions |-> OnlySelector(1, BCNumQuestionSelectors, <<QuestionPlain>>),
   tasks |-> <<>>]

\* the page an anti-bot wall answers with
BCDocDenied ==
  [h1 |-> Txt(13, {"Access Denied"}), pageTitle |-> NoText, titleTag |-> Txt(13, {"Access Denied"}),
   content |-> OnlySelector(8, BCNumContentSelectors, <<Txt(120, {})>>),
   main |-> [found |-> FALSE, paragraphs |-> <<>>],
   questions |-> Rep(<<>>, BCNumQuestionSelectors),
   tasks |-> <<>>]

BCTitleChoices ==
  { <<Txt(30, {}), NoText, Txt(30, {})>>,
    <<Txt(13, {"Access Denied"}), NoText, NoText>>,
    <<NoText, Txt(20, {"BLOCKED"}), NoText>>,
    <<NoText, NoText, Txt(13, {"Forbidden"})>>,
    <<NoText, NoText, NoText>> }

BCContentChoices ==
  { Rep(<<>>, BCNumContentSelectors),
    OnlySelector(1, BCNumContentSelectors, <<Txt(40, {}), Txt(40, {"Subscribe"})>>),
    [OnlySelector(3, BCNumContentSelectors, <<Txt(2600, {}), Txt(2600, {})>>)
       EXCEPT ![1] = <<Txt(50, {"Log in"}), Txt(30, {})>>],
    OnlySelector(8, BCNumContentSelectors,
                 <<Txt(31, {}), Txt(60, {"©"}), Txt(70, {"Sign up"}), Txt(70, {})>>) }

BCMainChoices ==
  { [found |-> FALSE, paragraphs |-> <<>>],
    [found |-> TRUE, paragraphs |-> <<>>],
    [found |-> TRUE, paragraphs |-> <<Txt(20, {})>>],
    [found |-> TRUE, paragraphs |-> <<Txt(31, {"Log in"}), Txt(500, {})>>] }

BCQuestionChoices ==
  { Rep(<<>>, BCNumQuestionSelectors),
    OnlySelector(1, BCNumQuestionSelectors, Rep(QuestionFive, BCMaxExercises + 1)),
    [OnlySelector(4, BCNumQuestionSelectors, <<QuestionPlain>>)
       EXCEPT ![2] = <<QuestionShort>>] }

BCTaskChoices ==
  { <<>>,
    << [instruction |-> NoText, content |-> Txt(400, {})],
       [instruction |-> NoText, content |-> NoText],
       [instruction |-> Txt(15, {}), content |-> NoText] >> }

BCDocs ==
  IF InRun THEN {BCDocPlain, BCDocDenied}
  ELSE { [h1 |-> t[1], pageTitle |-> t[2], titleTag |-> t[3], content |-> c, main |-> m,
          questions |-> q, tasks |-> k] :
           t \in BCTitleChoices, c \in BCContentChoices, m \in BCMainChoices,
           q \in BCQuestionChoices, k \in BCTaskChoices }

\* the references scrapeArticle is called with directly
BNRefs ==
  LET found == {getLatestArticles(<<e>>, 1)[1] : e \in {ExA, ExB, ExAabs}}
  IN found \cup {[r EXCEPT !.title = NoText] : r \in found}

BCRefs ==
  { [url |-> BCResolve(LinkX.href), title |-> LinkX.text, level |-> "A1"],
    [url |-> BCResolve(LinkY.href), title |-> NoText, level |-> ""],
    [url |-> <<BCHost, "node", "17">>, title |-> Txt(12, {}), level |-> ""] }

(***************************************************************************)
(* scrape() and discovery, as steps                                        *)
(***************************************************************************)

AfterDiscovery == IF entry = "discover" THEN "done" ELSE "extract"

\* lines 309, 520: scrape() calls discovery with limit 3
Scrape ==
  /\ rpc = "scrape"
  /\ limit' = ScrapeLimit
  /\ rpc' = "discover"
  /\ UNCHANGED <<orchVars, cliVars, delayVars, callVars, cur, runRet, err, browVars, fetchVars, articles, usable, li, si,
                 scrVars>>

\* line 348: const $ = await this.fetchPage(this.baseUrl)
BNGetLatest ==
  /\ rpc = "discover" /\ cur = BN
  /\ fpc' = "call"
  /\ rpc' = "bn_listing"
  /\ UNCHANGED <<orchVars, cliVars, delayVars, callVars, cur, runRet, err, browVars, openPages, discVars, scrVars>>

\* lines 349-391 when the page came; when fetchPage threw, the exception
\* leaves getLatestArticles and scrape
BNListing ==
  /\ rpc = "bn_listing" /\ fpc \in {"returned", "threw"}
  /\ fpc' = "none"
  /\ IF fpc = "returned"
       THEN /\ \E page \in BNPages : articles' = getLatestArticles(page, limit)
            /\ rpc' = AfterDiscovery
       ELSE /\ rpc' = ThrowFromScrape
            /\ UNCHANGED articles
  /\ usable' = Len(articles')
  /\ i' = 1
  /\ scrapeResults' = <<>>
  /\ attempts' = <<>>
  /\ UNCHANGED <<orchVars, cliVars, delayVars, callVars, cur, runRet, err, browVars, openPages, limit, li, si, lastDoc>>

\* lines 66-67: getReadingArticles starts with no articles
BCGetReading ==
  /\ rpc = "discover" /\ cur = BC
  /\ articles' = <<>>
  /\ li' = 1
  /\ si' = 1
  /\ rpc' = "bc_level"
  /\ UNCHANGED <<orchVars, cliVars, delayVars, callVars, cur, runRet, err, browVars, fetchVars, limit, usable, scrVars>>

\* lines 70-75: the next level page is fetched unless the limit is reached
BCFetchLevel ==
  /\ rpc = "bc_level"
  /\ li <= Len(BCLevels) /\ Len(articles) < limit
  /\ fpc' = "call"
  /\ rpc' = "bc_listing"
  /\ UNCHANGED <<orchVars, cliVars, delayVars, callVars, cur, runRet, err, browVars, openPages, discVars, scrVars>>

\* lines 76 and 125-127: the page came (sleep, then the selectors), or
\* fetchPage threw and the level is skipped
BCListing ==
  /\ rpc = "bc_listing" /\ fpc \in {"returned", "threw"}
  /\ fpc' = "none"
  /\ si' = 1
  /\ IF fpc = "returned"
       THEN rpc' = "bc_selector" /\ unslept' = "none" /\ UNCHANGED <<li, err>>
       ELSE rpc' = "bc_level" /\ li' = li + 1 /\ err' = "" /\ UNCHANGED unslept
  /\ UNCHANGED <<orchVars, cliVars, gap, callVars, cur, runRet, browVars, openPages, limit, articles, usable, scrVars>>

\* lines 88-124: one selector on the page of level li; els is what it matches
BCSelector ==
  /\ rpc = "bc_selector"
  /\ \E els \in BCMatches :
       LET found == BCEach(els, articles, limit, BCLevels[li])
       IN /\ articles' = found
          /\ IF Len(found) > 0 \/ si = BCNumSelectors
               THEN rpc' = "bc_level" /\ li' = li + 1 /\ si' = 1
               ELSE rpc' = "bc_selector" /\ li' = li /\ si' = si + 1
  /\ UNCHANGED <<orchVars, cliVars, delayVars, callVars, cur, runRet, err, browVars, fetchVars, limit, usable, scrVars>>

\* lines 130-154: the loop over the levels ended
BCReturn ==
  /\ rpc = "bc_level"
  /\ ~(li <= Len(BCLevels) /\ Len(articles) < limit)
  /\ articles' = BCDiscovered(articles, limit)
  /\ usable' = Len(articles)
  /\ rpc' = AfterDiscovery
  /\ i' = 1
  /\ scrapeResults' = <<>>
  /\ attempts' = <<>>
  /\ UNCHANGED <<orchVars, cliVars, delayVars, callVars, cur, runRet, err, browVars, fetchVars, limit, li, si, lastDoc>>

\* lines 312-315, 523-526: await this.sleep(); scrapeArticle(article) calls fetchPage
ScrapeNext ==
  /\ rpc = "extract" /\ i <= Len(articles)
  /\ unslept' = "none"
  /\ fpc' = "call"
  /\ rpc' = "article"
  /\ UNCHANGED <<orchVars, cliVars, gap, callVars, cur, runRet, err, browVars, openPages, discVars, scrVars>>

\* lines 316-317: data.url = article.url
BCScrapeItem(article, doc) ==
  BCScrapeArticle(article, doc) @@ [url |-> article.url]

\* lines 527-529
BNScrapeItem(article, doc) ==
  BNScrapeArticle(article, doc)
    @@ [url |-> article.url, availableLevels |-> article.levels,
        description |-> article.description]

\* no document: fetchPage threw
NoDoc == [none |-> TRUE]

\* a call of scrapeArticle that threw
Threw == [threw |-> TRUE]

\* lines 160-303, 396-514: what scrapeArticle returns for a document
scrapeArticle(a, article, doc) ==
  IF a = BN THEN BNScrapeArticle(article, doc) ELSE BCScrapeArticle(article, doc)

\* lines 315-317, 526-529: the item as scrape() pushes it
ScrapeItem(a, article, doc) ==
  IF a = BN THEN BNScrapeItem(article, doc) ELSE BCScrapeItem(article, doc)

\* where control goes when scrapeArticle throws, as it would be without the
\* try of the loop
AfterThrowUncaught == IF entry = "scrapeArticle" THEN "threw" ELSE ThrowFromScrape

\* lines 318-320, 531-533: the catch of the loop logs and the loop goes on
AfterThrow == IF entry = "scrapeArticle" THEN "threw" ELSE "extract"

\* scrapeArticle after its fetchPage: the item is pushed, or the exception
\* is caught (lines 318-320, 531-533).  Called directly, scrapeArticle hands
\* back the item or throws.
ScrapeArticle ==
  /\ rpc = "article" /\ fpc \in {"returned", "threw"}
  /\ fpc' = "none"
  /\ IF fpc = "returned"
       THEN /\ \E d \in (IF cur = BN THEN BNDocs ELSE BCDocs) :
                 /\ lastDoc' = d
                 /\ attempts' = Append(attempts, scrapeArticle(cur, articles[i], d))
                 /\ scrapeResults' =
                      IF entry = "scrapeArticle"
                        THEN <<scrapeArticle(cur, articles[i], d)>>
                        ELSE Append(scrapeResults, ScrapeItem(cur, articles[i], d))
            /\ rpc' = IF entry = "scrapeArticle" THEN "done" ELSE "extract"
            /\ UNCHANGED err
       ELSE /\ rpc' = AfterThrow
            /\ err' = IF entry = "scrapeArticle" THEN err ELSE ""
            /\ lastDoc' = NoDoc
            /\ attempts' = Append(attempts, Threw)
            /\ UNCHANGED scrapeResults
  /\ i' = i + 1
  /\ UNCHANGED <<orchVars, cliVars, delayVars, callVars, cur, runRet, browVars, openPages, discVars>>

\* lines 323, 536: return results
ScrapeReturn ==
  /\ rpc = "extract" /\ i > Len(articles)
  /\ rpc' = ReturnFromScrape
  /\ UNCHANGED <<orchVars, cliVars, delayVars, callVars, cur, runRet, err, browVars, fetchVars, discVars, scrVars>>

(***************************************************************************)
(* index.js: runAll()                                                      *)
(***************************************************************************)

\* lines 747-754; totalItems is not set yet (-1)
NewResults ==
  [metadata |-> [version |-> "1.0.0", sources |-> <<>>, totalItems |-> -1],
   content  |-> <<>>]

\* a file as it was before the invocation
NoArtifact == [written |-> FALSE]

\* the branches of runAll as they would be if a null result left no entry
RecordOutcomeSkipNull(res, name, ret) ==
  CASE ret.kind = "value" /\ Len(ret.data) > 0 ->
         [res EXCEPT !.content = @ \o ret.data,
                     !.metadata.sources =
                        Append(@, [name |-> name, status |-> "success",
                                   itemsFound |-> Len(ret.data)])]
    [] ret.kind = "value" /\ Len(ret.data) = 0 ->
         [res EXCEPT !.content = Append(@, [array |-> ret.data]),
                     !.metadata.sources =
                        Append(@, [name |-> name, status |-> "success", itemsFound |-> 1])]
    [] ret.kind = "null" -> res
    [] OTHER ->
         [res EXCEPT !.metadata.sources =
                        Append(@, [name |-> name, status |-> "error",
                                   error |-> ret.message, itemsFound |-> 0])]

\* the branches of runAll as they would be if the items were put in front
\* of content
RecordOutcomeUnshift(res, name, ret) ==
  CASE ret.kind = "value" /\ Len(ret.data) > 0 ->
         [res EXCEPT !.content = ret.data \o @,
                     !.metadata.sources =
                        Append(@, [name |-> name, status |-> "success",
                                   itemsFound |-> Len(ret.data)])]
    [] ret.kind = "value" /\ Len(ret.data) = 0 ->
         [res EXCEPT !.content = <<[array |-> ret.data]>> \o @,
                     !.metadata.sources =
                        Append(@, [name |-> name, status |-> "success", itemsFound |-> 1])]
    [] ret.kind = "null" ->
         [res EXCEPT !.metadata.sources =
                        Append(@, [name |-> name, status |-> "no_data", itemsFound |-> 0])]
    [] OTHER ->
         [res EXCEPT !.metadata.sources =
                        Append(@, [name |-> name, status |-> "error",
                                   error |-> ret.message, itemsFound |-> 0])]

\* lines 769-802: what one scraper's run adds to results.  ret is what
\* instance.run() gave: a value, null, or an exception.  A value that is not
\* a non-empty array is pushed whole, as one element.
RecordOutcome(res, name, ret) ==
  CASE ret.kind = "value" /\ Len(ret.data) > 0 ->
         [res EXCEPT !.content = @ \o ret.data,
                     !.metadata.sources =
                        Append(@, [name |-> name, status |-> "success",
                                   itemsFound |-> Len(ret.data)])]
    [] ret.kind = "value" /\ Len(ret.data) = 0 ->
         [res EXCEPT !.content = Append(@, [array |-> ret.data]),
                     !.metadata.sources =
                        Append(@, [name |-> name, status |-> "success", itemsFound |-> 1])]
    [] ret.kind = "null" ->
         [res EXCEPT !.metadata.sources =
                        Append(@, [name |-> name, status |-> "no_data", itemsFound |-> 0])]
    [] OTHER ->
         [res EXCEPT !.metadata.sources =
                        Append(@, [name |-> name, status |-> "error",
                                   error |-> ret.message, itemsFound |-> 0])]

\* lines 763-767: const data = await instance.run()
RunAllNext ==
  /\ pc = "loop" /\ idx <= Len(scrapers)
  /\ pc' = "run"
  /\ cur' = scrapers[idx]
  /\ rpc' = "run_init"
  /\ runLog' = Append(runLog, scrapers[idx])
  /\ UNCHANGED <<entry, cliVars, delayVars, callVars, idx, results, artifact, runRet, err, browVars, fetchVars,
                 discVars, scrVars>>

\* lines 769-803, once run() has ended; the locals of the ended calls go
RunAllRecord ==
  /\ pc = "run" /\ rpc = "run_done"
  /\ results' = RecordOutcome(results, scrapers[idx], runRet)
  /\ idx' = idx + 1
  /\ pc' = "loop"
  /\ cur' = "none"
  /\ rpc' = "idle"
  /\ runRet' = [kind |-> "none"]
  /\ err' = ""
  /\ limit' = 0 /\ articles' = <<>> /\ usable' = -1 /\ li' = 1 /\ si' = 1
  /\ i' = 1 /\ scrapeResults' = <<>> /\ lastDoc' = NoDoc /\ attempts' = <<>>
  /\ UNCHANGED <<entry, cliVars, delayVars, callVars, runLog, artifact, browVars, fetchVars>>

IsItem(x) == "source" \in DOMAIN x

\* totalItems as it would be if it counted the items only, not an empty array
\* pushed whole
TotalItemsRecordsOnly(res) == Len(SelectSeq(res.content, IsItem))

\* line 808: results.metadata.totalItems = results.content.length
TotalItems(res) == Len(res.content)

\* the end of the loop as it would be if it were left after the first scraper
RunAllStatsEarly ==
  /\ pc = "loop" /\ idx > 1
  /\ results' = [results EXCEPT !.metadata.totalItems = TotalItems(results)]
  /\ pc' = "write"
  /\ UNCHANGED <<entry, cliVars, delayVars, callVars, idx, runLog, artifact, runVars, browVars,
                 fetchVars, discVars, scrVars>>

\* lines 805-808, after the loop
RunAllStats ==
  /\ pc = "loop" /\ idx > Len(scrapers)
  /\ results' = [results EXCEPT !.metadata.totalItems = TotalItems(results)]
  /\ pc' = "write"
  /\ UNCHANGED <<entry, cliVars, delayVars, callVars, idx, runLog, artifact, runVars, browVars, fetchVars, discVars, scrVars>>

\* content.json after a write that failed part-way
Truncated == [written |-> FALSE, truncated |-> TRUE]

\* lines 811-841: fs.writeFile resolves, or rejects (caught and logged) with
\* the file as it was or cut short; runAll returns results
RunAllWrite ==
  /\ pc = "write"
  /\ \E out \in {"ok", "failed", "truncated"} :
       /\ artifact' = CASE out = "ok"     -> [written |-> TRUE, data |-> results]
                        [] out = "failed" -> artifact
                        [] OTHER          -> Truncated
       /\ writeFailed' = (out # "ok")
  /\ writes' = writes + 1
  /\ pc' = "done"
  /\ UNCHANGED <<entry, argv, exitCode, listed, singleFile, delayVars, callVars, idx, results,
                 runLog, runVars, browVars, fetchVars, discVars, scrVars>>

(***************************************************************************)
(* index.js: runSingle(scraperName) and the command line                   *)
(***************************************************************************)

\* lines 876-890: runSingle(args[0]) or runAll()
Dispatch(args) == IF Len(args) > 0 /\ args[1] # "--all" THEN "runSingle" ELSE "runAll"

\* the names runSingle is given
Args == {"breaking", "BC", "nope", "", "Constructor", "__proto__"}

\* String.prototype.toLowerCase, on those names
LowerName(name) ==
  CASE name = "BC"          -> "bc"
    [] name = "Constructor" -> "constructor"
    [] OTHER                -> name

\* lines 848-854: the keys scraperMap is written with
ScraperKeys == {"breaking", "breakingnews", "britishcouncil", "british", "bc"}

\* line 856: scraperMap[key].  scraperMap is an object literal, so a key it
\* does not hold is looked up in Object.prototype: 'constructor' gives the
\* function Object and '__proto__' gives Object.prototype, both truthy.
ScraperClass(key) ==
  CASE key \in {"breaking", "breakingnews"}          -> BN
    [] key \in {"britishcouncil", "british", "bc"}   -> BC
    [] key \in {"constructor", "__proto__"}          -> "inherited"
    [] OTHER                                         -> "undefined"

\* lines 856-865: an unknown name is reported and the process exits; else the
\* scraper is constructed and run.  With an inherited property, new
\* ScraperClass() or scraper.run() throws a TypeError, which rejects
\* runSingle; the catch of lines 881-884 logs it and exits.
RunSingleStart ==
  /\ entry = "runSingle" /\ pc = "single"
  /\ LET class == ScraperClass(LowerName(argv[1]))
     IN CASE class = "undefined" ->
               /\ listed' = TRUE
               /\ exitCode' = 1
               /\ pc' = "exit"
               /\ UNCHANGED <<cur, rpc, err>>
          [] class = "inherited" ->
               /\ err' = "scraper.run is not a function"
               /\ exitCode' = 1
               /\ pc' = "exit"
               /\ UNCHANGED <<cur, rpc, listed>>
          [] OTHER ->
               /\ pc' = "single_run"
               /\ cur' = class
               /\ rpc' = "run_init"
               /\ UNCHANGED <<listed, exitCode, err>>
  /\ UNCHANGED <<entry, idx, results, runLog, artifact, runRet, browVars, fetchVars, discVars,
                 scrVars, argv, singleFile, writes, writeFailed, delayVars, callVars>>

\* line 869: content-<name>.json
SinglePath(name) == "content-" \o LowerName(name) \o ".json"

\* lines 868-872: JSON.stringify(results) is written and results returned;
\* when fs.writeFile rejects, runSingle rejects and lines 881-884 exit
RunSingleWrite ==
  /\ pc = "single_run" /\ rpc = "run_done"
  /\ \E out \in {"ok", "failed", "truncated"} :
       /\ singleFile' = CASE out = "ok"     -> [written |-> TRUE, path |-> SinglePath(argv[1]),
                                                data |-> runRet]
                          [] out = "failed" -> singleFile
                          [] OTHER          -> Truncated
       /\ writeFailed' = (out # "ok")
       /\ pc' = IF out = "ok" THEN "single_done" ELSE "exit"
       /\ exitCode' = IF out = "ok" THEN exitCode ELSE 1
  /\ writes' = writes + 1
  /\ UNCHANGED <<entry, idx, results, runLog, artifact, runVars, browVars, fetchVars, discVars,
                 scrVars, argv, listed, delayVars, callVars>>

(***************************************************************************)
(* Level normalisation: BritishCouncilScraper.normalizeLevel and the        *)
(* Content Loader's normalizeToCEFR.  A string is the sequence of its       *)
(* characters; '' and an absent value, both falsy, are the empty sequence.  *)
(***************************************************************************)

UpperAlpha == <<"A", "B", "C", "D", "E", "F", "G", "H", "I", "J", "K", "L", "M",
                "N", "O", "P", "Q", "R", "S", "T", "U", "V", "W", "X", "Y", "Z">>
LowerAlpha == <<"a", "b", "c", "d", "e", "f", "g", "h", "i", "j", "k", "l", "m",
                "n", "o", "p", "q", "r", "s", "t", "u", "v", "w", "x", "y", "z">>
Digits == <<"0", "1", "2", "3", "4", "5", "6", "7", "8", "9">>

LowerChar(c) ==
  IF \E k \in 1..Len(UpperAlpha) : UpperAlpha[k] = c
    THEN LowerAlpha[CHOOSE k \in 1..Len(UpperAlpha) : UpperAlpha[k] = c] ELSE c

UpperChar(c) ==
  IF \E k \in 1..Len(LowerAlpha) : LowerAlpha[k] = c
    THEN UpperAlpha[CHOOSE k \in 1..Len(LowerAlpha) : LowerAlpha[k] = c] ELSE c

\* String.prototype.toLowerCase, toUpperCase
toLowerCase(str) == [k \in 1..Len(str) |-> LowerChar(str[k])]
toUpperCase(str) == [k \in 1..Len(str) |-> UpperChar(str[k])]

\* String.prototype.trim
RECURSIVE trimStart(_)
trimStart(str) ==
  IF str # <<>> /\ Head(str) = " " THEN trimStart(Tail(str)) ELSE str

RECURSIVE trimEnd(_)
trimEnd(str) ==
  IF str # <<>> /\ str[Len(str)] = " " THEN trimEnd(SubSeq(str, 1, Len(str) - 1)) ELSE str

trim(str) == trimEnd(trimStart(str))

\* str.includes(sub)
strIncludes(str, sub) ==
  \E k \in 0..(Len(str) - Len(sub)) : SubSeq(str, k + 1, k + Len(sub)) = sub

IsDigit(c) == \E k \in 1..Len(Digits) : Digits[k] = c

\* the positions where /([abc][12])/ matches in a lower-cased string
CefrAt(str) ==
  {k \in 1..(Len(str) - 1) : str[k] \in {"a", "b", "c"} /\ str[k + 1] \in {"1", "2"}}

Unknown == <<"U", "n", "k", "n", "o", "w", "n">>

\* lines 44-52: levelMap, as Object.entries gives it
levelMap ==
  << <<<<"b", "e", "g", "i", "n", "n", "e", "r">>, <<"A", "1">> >>,
     <<<<"e", "l", "e", "m", "e", "n", "t", "a", "r", "y">>, <<"A", "2">> >>,
     <<<<"p", "r", "e", "-", "i", "n", "t", "e", "r", "m", "e", "d", "i", "a", "t", "e">>, <<"B", "1">> >>,
     <<<<"i", "n", "t", "e", "r", "m", "e", "d", "i", "a", "t", "e">>, <<"B", "1">> >>,
     <<<<"u", "p", "p", "e", "r", "-", "i", "n", "t", "e", "r", "m", "e", "d", "i", "a", "t", "e">>, <<"B", "2">> >>,
     <<<<"u", "p", "p", "e", "r", " ", "i", "n", "t", "e", "r", "m", "e", "d", "i", "a", "t", "e">>, <<"B", "2">> >>,
     <<<<"a", "d", "v", "a", "n", "c", "e", "d">>, <<"C", "1">> >> >>

\* lines 54-58: the value of the first key the text includes
RECURSIVE levelMapFind(_, _)
levelMapFind(entries, lower) ==
  IF entries = <<>> THEN <<>>
  ELSE IF strIncludes(lower, Head(entries)[1]) THEN Head(entries)[2]
  ELSE levelMapFind(Tail(entries), lower)

\* BritishCouncilScraper.normalizeLevel(levelText), lines 33-61
normalizeLevel(levelText) ==
  IF levelText = <<>> THEN Unknown
  ELSE LET lower == trim(toLowerCase(levelText))
           at == CefrAt(lower)
       IN IF at # {}
            THEN LET k == CHOOSE j \in at : \A h \in at : j <= h
                 IN toUpperCase(SubSeq(lower, k, k + 1))
            ELSE IF levelMapFind(levelMap, lower) # <<>>
                   THEN levelMapFind(levelMap, lower)
                   ELSE levelText

\* parseInt of a string of digits (-1: NaN, for the empty string)
RECURSIVE parseInt(_)
parseInt(digits) ==
  IF digits = <<>> THEN -1
  ELSE LET d == (CHOOSE k \in 1..Len(Digits) : Digits[k] = digits[Len(digits)]) - 1
           front == SubSeq(digits, 1, Len(digits) - 1)
       IN IF front = <<>> THEN d ELSE 10 * parseInt(front) + d

\* the Breaking News level as it would be if it were mapped to a lower-case code
mapBNELevelToCEFRLower(level) ==
  LET levelNum == parseInt(SelectSeq(level, IsDigit))
  IN CASE levelNum = -1 -> level
       [] levelNum <= 1 -> <<"a", "1">>
       [] levelNum = 2  -> <<"a", "2">>
       [] levelNum = 3  -> <<"b", "1">>
       [] levelNum = 4  -> <<"b", "1">>
       [] levelNum = 5  -> <<"b", "2">>
       [] OTHER         -> <<"c", "1">>

\* part_003 lines 57-71: mapBNELevelToCEFR(level)
mapBNELevelToCEFR(level) ==
  LET levelNum == parseInt(SelectSeq(level, IsDigit))
  IN CASE levelNum = -1 -> level
       [] levelNum <= 1 -> <<"A", "1">>
       [] levelNum = 2  -> <<"A", "2">>
       [] levelNum = 3  -> <<"B", "1">>
       [] levelNum = 4  -> <<"B", "1">>
       [] levelNum = 5  -> <<"B", "2">>
       [] OTHER         -> <<"C", "1">>

\* part_003 lines 76-90: normalizeToCEFR(level)
normalizeToCEFR(level) ==
  IF level = <<>> THEN Unknown
  ELSE IF Len(level) = 2 /\ CefrAt(toLowerCase(level)) = {1} THEN toUpperCase(level)
  ELSE IF strIncludes(toLowerCase(level), <<"l", "e", "v", "e", "l">>)
         THEN mapBNELevelToCEFR(level)
  ELSE level

\* the level texts the two functions are given
LevelTexts ==
  { <<>>,
    <<"B", "1">>,
    <<"b", "1">>,
    <<"C", "2">>,
    <<"a", "2">>,
    <<"A", "1">>,
    <<"L", "e", "v", "e", "l", " ", "3">>,
    <<"l", "e", "v", "e", "l", " ", "0">>,
    <<"L", "E", "V", "E", "L", " ", "6">>,
    <<"L", "e", "v", "e", "l", " ", "4", "5">>,
    <<"L", "e", "v", "e", "l">>,
    <<"L", "e", "v", "e", "l", " ", "2">>,
    <<"L", "e", "v", "e", "l", " ", "5">>,
    <<"B", "e", "g", "i", "n", "n", "e", "r">>,
    <<"E", "l", "e", "m", "e", "n", "t", "a", "r", "y">>,
    <<"P", "r", "e", "-", "I", "n", "t", "e", "r", "m", "e", "d", "i", "a", "t", "e">>,
    <<"i", "n", "t", "e", "r", "m", "e", "d", "i", "a", "t", "e">>,
    <<"U", "p", "p", "e", "r", "-", "I", "n", "t", "e", "r", "m", "e", "d", "i", "a", "t", "e">>,
    <<"u", "p", "p", "e", "r", " ", "i", "n", "t", "e", "r", "m", "e", "d", "i", "a", "t", "e">>,
    <<"A", "d", "v", "a", "n", "c", "e", "d">>,
    <<"B", "2", " ", "U", "p", "p", "e", "r">>,
    <<" ", " ", "c", "1", " ">>,
    <<"U", "n", "k", "n", "o", "w", "n">>,
    <<"H", "a", "r", "d", "e", "r">>,
    <<"I", "n", "t", "e", "r", "m", "e", "d", "i", "a", "t", "e", " ", "(", "B", "2", ")">>,
    <<" ">> }

NormalizeFns == {"normalizeLevel", "normalizeToCEFR"}

Normalized(fn, x) == IF fn = "normalizeLevel" THEN normalizeLevel(x) ELSE normalizeToCEFR(x)

\* fn(x) is called
NormalizeCall ==
  /\ entry = "normalize" /\ pc = "call"
  /\ output' = [values |-> <<Normalized(input.fn, input.x)>>]
  /\ pc' = "again"
  /\ UNCHANGED <<entry, idx, results, runLog, artifact, runVars, browVars, fetchVars, discVars,
                 scrVars, cliVars, delayVars, input>>

\* fn is called with what it returned
NormalizeAgain ==
  /\ entry = "normalize" /\ pc = "again"
  /\ output' = [values |-> Append(output.values, Normalized(input.fn, output.values[1]))]
  /\ pc' = "returned"
  /\ UNCHANGED <<entry, idx, results, runLog, artifact, runVars, browVars, fetchVars, discVars,
                 scrVars, cliVars, delayVars, input>>

(***************************************************************************)
(* The Content Loader (part_003).  The file it reads is missing, holds     *)
(* text JSON.parse rejects, holds JSON without content or metadata, or     *)
(* holds a ScrapedContentFile, given as the value it parses to.            *)
(***************************************************************************)

MaxContent == 3       \* most items in the content of a file

\* null
NoValue == [null |-> TRUE]

\* lines 102-121: null when the file does not exist, or when reading,
\* parsing or data.content.length throws
loadScrapedContent(file) == IF file.kind = "file" THEN file.data ELSE NoValue

\* the test of getValidContent as it would be without the length of the body
getValidItemAnyLength(item) ==
  /\ ~("blocked" \in DOMAIN item /\ item.blocked)
  /\ "body" \in DOMAIN item /\ Truthy(item.body)
  /\ ~includes(item.body, "[BLOCKED]")
  /\ ~lowerIncludes(item.title, "access denied")

\* lines 127-133: the test of getValidContent
getValidItem(item) ==
  /\ ~("blocked" \in DOMAIN item /\ item.blocked)
  /\ "body" \in DOMAIN item /\ Truthy(item.body)
  /\ item.body.len > 100
  /\ ~includes(item.body, "[BLOCKED]")
  /\ ~lowerIncludes(item.title, "access denied")

\* lines 126-134
getValidContent(data) == SelectSeq(data.content, getValidItem)

\* filterByLevel as it would be if it compared the levels as written
filterByLevelAsWritten(content, targetLevel) ==
  LET Same(item) == item.level = targetLevel
  IN SelectSeq(content, Same)

\* lines 139-146
filterByLevel(content, targetLevel) ==
  LET normalizedTarget == normalizeToCEFR(targetLevel)
      Same(item) == normalizeToCEFR(item.level) = normalizedTarget
  IN SelectSeq(content, Same)

\* line 153
levelOrder == << <<"A", "1">>, <<"A", "2">>, <<"B", "1">>, <<"B", "2">>, <<"C", "1">>,
                <<"C", "2">> >>

\* Array.prototype.indexOf, counting from 1 (0: not found)
indexOf(seq, x) ==
  IF \E k \in 1..Len(seq) : seq[k] = x
    THEN CHOOSE k \in 1..Len(seq) : seq[k] = x /\ \A j \in 1..(k - 1) : seq[j] # x
    ELSE 0

\* lines 151-168
filterByApproximateLevel(content, targetLevel) ==
  LET normalizedTarget == normalizeToCEFR(targetLevel)
      targetIndex == indexOf(levelOrder, normalizedTarget)
      validLevels == {normalizedTarget}
                       \cup (IF targetIndex > 1 THEN {levelOrder[targetIndex - 1]} ELSE {})
                       \cup (IF targetIndex < Len(levelOrder)
                               THEN {levelOrder[targetIndex + 1]} ELSE {})
      Near(item) == normalizeToCEFR(item.level) \in validLevels
  IN IF targetIndex = 0 THEN content ELSE SelectSeq(content, Near)

\* lines 203-207: the test of the topic match
topicMatches(item, topic) ==
  LET topicLower == Lower(topic)
  IN \/ lowerIncludes(item.title, topicLower)
     \/ lowerIncludes(item.body, topicLower)
     \/ /\ "description" \in DOMAIN item
        /\ Truthy(item.description)
        /\ lowerIncludes(item.description, topicLower)

\* lines 173-215: the values getBestContentForLesson(targetLevel, topic) can
\* return; without a topic match it returns a random item of filtered
getBestContentForLesson(file, targetLevel, topic) ==
  LET data == loadScrapedContent(file)
  IN IF data = NoValue THEN {NoValue}
     ELSE LET validContent == getValidContent(data)
              exact == filterByLevel(validContent, targetLevel)
              approximate == IF exact = <<>>
                               THEN filterByApproximateLevel(validContent, targetLevel)
                               ELSE exact
              filtered == IF approximate = <<>> THEN validContent ELSE approximate
              Match(item) == topicMatches(item, topic)
              matches == SelectSeq(filtered, Match)
          IN IF validContent = <<>> THEN {NoValue}
             ELSE IF topic # "" /\ Len(filtered) > 1 /\ matches # <<>> THEN {matches[1]}
             ELSE {filtered[k] : k \in 1..Len(filtered)}

\* lines 220-227
getAllContentForLevel(file, targetLevel) ==
  LET data == loadScrapedContent(file)
  IN IF data = NoValue THEN <<>>
     ELSE filterByApproximateLevel(getValidContent(data), targetLevel)

\* items of a file: of BreakingNews with a topic in the title, of
\* BritishCouncil with it in the body, with a body of 101 and of 100
\* characters, flagged as blocked, with the body of a blocked page, with the
\* title of one, of no known level, and the empty array runAll pushes whole
ItemNews ==
  [source |-> BN, level |-> <<"L", "e", "v", "e", "l", " ", "3">>, title |-> Txt(24, {"Climate"}),
   body |-> Txt(400, {}), description |-> Txt(90, {})]
ItemReading ==
  [source |-> BC, level |-> <<"A", "2">>, title |-> Txt(30, {}), body |-> Txt(300, {"climate"})]
ItemAdvanced ==
  [source |-> BC, level |-> <<"C", "1">>, title |-> Txt(30, {}), body |-> Txt(101, {})]
ItemShort ==
  [source |-> BN, level |-> <<"L", "e", "v", "e", "l", " ", "3">>, title |-> Txt(24, {}),
   body |-> Txt(100, {}), description |-> NoText]
ItemFlagged ==
  [source |-> BC, level |-> <<"B", "1">>, title |-> Txt(30, {}), body |-> Txt(500, {}),
   blocked |-> TRUE]
ItemBlockedBody ==
  [source |-> BC, level |-> <<"B", "1">>, title |-> Txt(30, {}),
   body |-> Txt(102, {"[BLOCKED]"})]
ItemDenied ==
  [source |-> BC, level |-> <<"B", "1">>, title |-> Txt(13, {"Access Denied"}),
   body |-> Txt(500, {})]
ItemUnknown ==
  [source |-> BN, level |-> Unknown, title |-> Txt(24, {}), body |-> Txt(200, {}),
   description |-> Txt(60, {"CLIMATE"})]
ItemArray == [array |-> <<>>]

LoaderItems == {ItemNews, ItemReading, ItemAdvanced, ItemShort, ItemFlagged, ItemBlockedBody,
                ItemDenied, ItemUnknown, ItemArray}

LoaderFiles ==
  {[kind |-> "missing"], [kind |-> "invalid"], [kind |-> "noContent"]}
    \cup {[kind |-> "file", data |-> [metadata |-> [version |-> "1.0.0"], content |-> c]] :
            c \in SeqsUpTo(LoaderItems, MaxContent)}

\* the levels and topics asked for ("": no topic)
TargetLevels == {<<"B", "1">>, <<"a", "2">>, <<"C", "2">>, <<"H", "a", "r", "d">>, <<>>}
Topics == {"", "Climate", "sports"}

\* getValidContent(data)
GetValidContent ==
  /\ entry = "loader" /\ pc = "call" /\ input.fn = "getValidContent"
  /\ output' = [value |-> getValidContent(input.file.data)]
  /\ pc' = "returned"
  /\ UNCHANGED <<entry, idx, results, runLog, artifact, runVars, browVars, fetchVars, discVars,
                 scrVars, cliVars, delayVars, input>>

\* getBestContentForLesson(targetLevel, topic)
GetBestContentForLesson ==
  /\ entry = "loader" /\ pc = "call" /\ input.fn = "getBestContentForLesson"
  /\ \E item \in getBestContentForLesson(input.file, input.targetLevel, input.topic) :
       output' = [value |-> item]
  /\ pc' = "returned"
  /\ UNCHANGED <<entry, idx, results, runLog, artifact, runVars, browVars, fetchVars, discVars,
                 scrVars, cliVars, delayVars, input>>

\* getAllContentForLevel(targetLevel)
GetAllContentForLevel ==
  /\ entry = "loader" /\ pc = "call" /\ input.fn = "getAllContentForLevel"
  /\ output' = [value |-> getAllContentForLevel(input.file, input.targetLevel)]
  /\ pc' = "returned"
  /\ UNCHANGED <<entry, idx, results, runLog, artifact, runVars, browVars, fetchVars, discVars,
                 scrVars, cliVars, delayVars, input>>

(***************************************************************************)
(* BaseScraper.sleep(min, max).  Math.random() is one of RandomSteps        *)
(* equally spaced values r / RandomSteps of [0, 1).                        *)
(***************************************************************************)

RandomSteps == 8      \* values Math.random() takes
MaxDelay == 4         \* largest argument sleep is called with

\* lines 565-566 and 26-27: this.minDelay and this.maxDelay
BaseMinDelay == 2000
BaseMaxDelay == 5000
BCMinDelay == 3000
BCMaxDelay == 6000

minDelay(a) == IF a = BC THEN BCMinDelay ELSE BaseMinDelay
maxDelay(a) == IF a = BC THEN BCMaxDelay ELSE BaseMaxDelay

\* sleep called without arguments
NoArgs == <<>>

\* line 579: min = this.minDelay, max = this.maxDelay
SleepMin(a, args) == IF args = NoArgs THEN minDelay(a) ELSE args[1]
SleepMax(a, args) == IF args = NoArgs THEN maxDelay(a) ELSE args[2]

\* the delay as it would be without the + 1
sleepDelayExclusive(r, min, max) == (r * (max - min)) \div RandomSteps + min

\* line 580: Math.floor(Math.random() * (max - min + 1)) + min, with
\* Math.random() = r / RandomSteps
sleepDelay(r, min, max) == (r * (max - min + 1)) \div RandomSteps + min

\* the arguments sleep is called with: none, or integers min <= max
SleepArgs == {NoArgs} \cup {pair \in (0..MaxDelay) \X (0..MaxDelay) : pair[1] <= pair[2]}

\* lines 579-583: sleep(min, max) waits delay milliseconds
Sleep ==
  /\ entry = "sleep" /\ pc = "call"
  /\ \E r \in 0..(RandomSteps - 1) :
       output' = [delay |-> sleepDelay(r, SleepMin(input.a, input.args),
                                       SleepMax(input.a, input.args)),
                  random |-> r]
  /\ pc' = "returned"
  /\ UNCHANGED <<entry, idx, results, runLog, artifact, runVars, browVars, fetchVars, discVars,
                 scrVars, cliVars, delayVars, input>>

(***************************************************************************)
(* JSON.stringify and JSON.parse.  A JavaScript value is tagged with its   *)
(* type (t); the text written is the tree of its JSON productions (j),     *)
(* which has no production for undefined.                                  *)
(***************************************************************************)

JsString(x) == [t |-> "string", v |-> x]
JsNumber(n) == [t |-> "number", v |-> n]
JsArray(elements) == [t |-> "array", elements |-> elements]
JsObject(members) == [t |-> "object", members |-> members]
JsUndefined == [t |-> "undefined"]
JsNull == [t |-> "null"]

Member(key, value) == [key |-> key, value |-> value]

IsDefined(member) == member.value.t # "undefined"

\* JSON.stringify(value): a member whose value is undefined is left out; an
\* undefined element of an array is written as null
RECURSIVE JSONstringify(_)
JSONstringify(value) ==
  CASE value.t = "object" ->
         LET kept == SelectSeq(value.members, IsDefined)
         IN [j |-> "object",
             members |-> [k \in 1..Len(kept) |->
                            [key |-> kept[k].key, json |-> JSONstringify(kept[k].value)]]]
    [] value.t = "array" ->
         [j |-> "array",
          elements |-> [k \in 1..Len(value.elements) |-> JSONstringify(value.elements[k])]]
    [] value.t = "string" -> [j |-> "string", v |-> value.v]
    [] value.t = "number" -> [j |-> "number", v |-> value.v]
    [] OTHER -> [j |-> "null"]

\* JSON.parse(text)
RECURSIVE JSONparse(_)
JSONparse(json) ==
  CASE json.j = "object" ->
         JsObject([k \in 1..Len(json.members) |->
                     Member(json.members[k].key, JSONparse(json.members[k].json))])
    [] json.j = "array" ->
         JsArray([k \in 1..Len(json.elements) |-> JSONparse(json.elements[k])])
    [] json.j = "string" -> JsString(json.v)
    [] json.j = "number" -> JsNumber(json.v)
    [] OTHER -> JsNull

\* lines 687, 749: the text of new Date().toISOString(); lines 806-807: the
\* text of the duration; strings, whatever the clock reads
ISOString == "toISOString"
Seconds == "toFixed(2)s"

\* lines 260-293, 508-512: an exercise, with the members its type is pushed with
JsExercise(e) ==
  CASE e.type = "vocabulary" ->
         JsObject(<<Member("type", JsString(e.type)), Member("word", JsString(e.word)),
                    Member("definition", JsString(e.definition))>>)
    [] e.type = "comprehension" ->
         JsObject(<<Member("type", JsString(e.type)), Member("question", JsString(e.question)),
                    Member("options",
                           JsArray([k \in 1..Len(e.options) |-> JsString(e.options[k])]))>>)
    [] OTHER ->
         JsObject(<<Member("type", JsString(e.type)),
                    Member("instruction", JsString(e.instruction)),
                    Member("description", JsString(e.description))>>)

\* lines 365-371: a level link of a reference
JsLevel(l) == JsObject(<<Member("level", JsString(l.level)), Member("url", JsString(l.url))>>)

\* lines 680-689, 316, 527-529: an element of content: an item with the
\* members formatResult and scrape set, or the empty array pushed whole
JsItem(x) ==
  IF "array" \in DOMAIN x THEN JsArray(<<>>)
  ELSE JsObject(
         <<Member("source", JsString(x.source)), Member("level", JsString(x.level)),
           Member("title", JsString(x.title)), Member("body", JsString(x.body)),
           Member("exercises",
                  JsArray([k \in 1..Len(x.exercises) |-> JsExercise(x.exercises[k])])),
           Member("scrapedAt", JsString(ISOString)), Member("url", JsString(x.url))>>
         \o (IF "availableLevels" \in DOMAIN x
               THEN <<Member("availableLevels",
                             JsArray([k \in 1..Len(x.availableLevels) |->
                                        JsLevel(x.availableLevels[k])])),
                      Member("description", JsString(x.description))>>
               ELSE <<>>))

\* an entry of sources as it would be if every branch set error, to
\* undefined where there is no exception
JsSourceWithError(e) ==
  JsObject(<<Member("name", JsString(e.name)), Member("status", JsString(e.status)),
             Member("error", IF "error" \in DOMAIN e THEN JsString(e.error) ELSE JsUndefined),
             Member("itemsFound", JsNumber(e.itemsFound))>>)

\* lines 771-801: an entry of sources
JsSource(e) ==
  JsObject(<<Member("name", JsString(e.name)), Member("status", JsString(e.status))>>
           \o (IF "error" \in DOMAIN e THEN <<Member("error", JsString(e.error))>> ELSE <<>>)
           \o <<Member("itemsFound", JsNumber(e.itemsFound))>>)

\* lines 747-754, 806-808: the RunResult
JsResults(res) ==
  JsObject(
    <<Member("metadata",
             JsObject(<<Member("scrapedAt", JsString(ISOString)),
                        Member("version", JsString(res.metadata.version)),
                        Member("sources",
                               JsArray([k \in 1..Len(res.metadata.sources) |->
                                          JsSource(res.metadata.sources[k])])),
                        Member("duration", JsString(Seconds)),
                        Member("totalItems", JsNumber(res.metadata.totalItems))>>)),
      Member("content", JsArray([k \in 1..Len(res.content) |-> JsItem(res.content[k])]))>>)

(***************************************************************************)
(* The specifications                                                      *)
(***************************************************************************)

NoInput == [none |-> TRUE]
NoOutput == [none |-> TRUE]

Fresh ==
  /\ idx = 1
  /\ results = NewResults
  /\ runLog = <<>>
  /\ artifact = NoArtifact
  /\ runRet = [kind |-> "none"]
  /\ err = ""
  /\ browser = [a \in Adapters |-> FALSE]
  /\ context = [a \in Adapters |-> FALSE]
  /\ launched = [a \in Adapters |-> 0]
  /\ closed = [a \in Adapters |-> 0]
  /\ openPages = 0
  /\ usable = -1
  /\ li = 1 /\ si = 1 /\ i = 1
  /\ scrapeResults = <<>>
  /\ lastDoc = NoDoc
  /\ attempts = <<>>
  /\ exitCode = -1
  /\ listed = FALSE
  /\ singleFile = NoArtifact
  /\ writes = 0
  /\ writeFailed = FALSE
  /\ unslept = "none"
  /\ gap = "none"

\* no function is called alone
NoCall == input = NoInput /\ output = NoOutput

\* node scraper/index.js: runAll() with the scrapers just constructed
InitRunAll ==
  /\ argv = <<>>
  /\ entry = Dispatch(argv)
  /\ pc = "loop"
  /\ cur = "none"
  /\ rpc = "idle"
  /\ fpc = "none"
  /\ limit = 0
  /\ articles = <<>>
  /\ Fresh /\ NoCall

\* One method of a scraper just constructed, called directly: discovery with
\* a limit, or scrapeArticle with a reference.
InitMethod ==
  /\ argv = <<>>
  /\ pc = "none"
  /\ cur \in Adapters
  /\ \/ /\ entry = "discover"
        /\ rpc = "discover"
        /\ fpc = "none"
        /\ limit \in 0..MaxLimit
        /\ articles = <<>>
     \/ /\ entry = "scrapeArticle"
        /\ rpc = "article"
        /\ fpc = "call"
        /\ limit = 0
        /\ articles \in {<<r>> : r \in IF cur = BN THEN BNRefs ELSE BCRefs}
  /\ Fresh /\ NoCall

\* node scraper/index.js <name>
InitCli ==
  /\ argv \in {<<a>> : a \in Args}
  /\ entry = Dispatch(argv)
  /\ pc = "single"
  /\ cur = "none"
  /\ rpc = "idle"
  /\ fpc = "none"
  /\ limit = 0
  /\ articles = <<>>
  /\ Fresh /\ NoCall

\* the locals of the scraper, which a call of a function alone does not touch
Idle ==
  /\ argv = <<>>
  /\ cur = "none"
  /\ rpc = "idle"
  /\ fpc = "none"
  /\ limit = 0
  /\ articles = <<>>

\* normalizeLevel or normalizeToCEFR called with a level text
InitNormalize ==
  /\ entry = "normalize"
  /\ pc = "call"
  /\ Idle
  /\ Fresh
  /\ input \in {[fn |-> f, x |-> t] : f \in NormalizeFns, t \in LevelTexts}
  /\ output = NoOutput

\* one of the selection functions of the Content Loader called, the file
\* being as some run or anything else left it
InitLoader ==
  /\ entry = "loader"
  /\ pc = "call"
  /\ Idle
  /\ Fresh
  /\ input \in
       {[fn |-> "getValidContent", file |-> f] : f \in {g \in LoaderFiles : g.kind = "file"}}
         \cup {[fn |-> "getAllContentForLevel", file |-> f, targetLevel |-> l] :
                 f \in LoaderFiles, l \in TargetLevels}
         \cup {[fn |-> "getBestContentForLesson", file |-> f, targetLevel |-> l, topic |-> t] :
                 f \in LoaderFiles, l \in TargetLevels, t \in Topics}
  /\ output = NoOutput

\* sleep called on a scraper just constructed
InitSleep ==
  /\ entry = "sleep"
  /\ pc = "call"
  /\ Idle
  /\ Fresh
  /\ input \in {[a |-> a, args |-> args] : a \in Adapters, args \in SleepArgs}
  /\ output = NoOutput

Init == InitRunAll \/ InitCli \/ InitMethod \/ InitNormalize \/ InitLoader \/ InitSleep

Next ==
  \/ RunAllNext \/ RunInit \/ Scrape
  \/ BNGetLatest \/ BNListing
  \/ BCGetReading \/ BCFetchLevel \/ BCListing \/ BCSelector \/ BCReturn
  \/ ScrapeNext \/ ScrapeArticle \/ ScrapeReturn
  \/ FetchInit \/ FetchNewPage \/ FetchLoad \/ FetchReturn \/ FetchThrow
  \/ RunReturn \/ RunCatch
  \/ RunAllRecord \/ RunAllStats \/ RunAllWrite
  \/ RunSingleStart \/ RunSingleWrite
  \/ NormalizeCall \/ NormalizeAgain
  \/ GetValidContent \/ GetBestContentForLesson \/ GetAllContentForLevel
  \/ Sleep

Spec == Init /\ [][Next]_vars

(***************************************************************************)
(* The claims                                                              *)
(***************************************************************************)

SourceNames(res) == [k \in 1..Len(res.metadata.sources) |-> res.metadata.sources[k].name]

\* what instance.run() can hand to runAll: items, an empty list, null, or
\* an exception
RunOutcomes ==
  { [kind |-> "value", data |-> scrapeResults],
    [kind |-> "value", data |-> <<>>],
    [kind |-> "null"],
    [kind |-> "exception", message |-> "Target closed"] }

\* C1: in runAll every configured scraper is run exactly once, in the
\* configured order, whatever the earlier ones gave, and metadata.sources
\* holds exactly one entry per scraper run, in that order: while the loop
\* runs, for the scrapers run so far; whatever run() gives (items, an empty
\* list, null, an exception), the branches of runAll add one entry for the
\* scraper; in the result returned and written, one entry for every scraper.
C1_OneSourcePerAdapter ==
  entry = "runAll" =>
    /\ runLog = SubSeq(scrapers, 1, Len(runLog))
    /\ Len(runLog) = (IF pc = "run" THEN idx ELSE idx - 1)
    /\ SourceNames(results) = SubSeq(scrapers, 1, idx - 1)
    /\ pc = "run" =>
         \A ret \in RunOutcomes :
           SourceNames(RecordOutcome(results, scrapers[idx], ret)) = SubSeq(scrapers, 1, idx)
    /\ pc \in {"write", "done"} => runLog = scrapers /\ SourceNames(results) = scrapers
    /\ artifact.written => SourceNames(artifact.data) = scrapers

\* C1 witness: the first scraper's run failed (null), the second was run
\* and gave items, and both are recorded
C1_Witness ==
  /\ pc = "done"
  /\ runLog = scrapers
  /\ results.metadata.sources[1].status = "no_data"
  /\ results.metadata.sources[2].status = "success"
  /\ results.metadata.sources[2].itemsFound = 3

\* C2: when a scraper's run failed with an exception (run() ended in its
\* catch, err being the exception's message), the entry runAll records for
\* it has status 'error', itemsFound 0 and that message.
C2_FailedRunRecordedAsError ==
  [][ (pc = "run" /\ rpc = "run_done" /\ runRet.kind = "null") =>
        LET e == Last(results'.metadata.sources)
        IN /\ e.status = "error"
           /\ e.itemsFound = 0
           /\ "error" \in DOMAIN e
           /\ e.error = err ]_vars

\* C3: in the RunResult runAll returns, and in the one it writes,
\* metadata.totalItems is the length of content.
C3_TotalItemsIsContentLength ==
  /\ pc \in {"write", "done"} => results.metadata.totalItems = Len(results.content)
  /\ artifact.written => artifact.data.metadata.totalItems = Len(artifact.data.content)

\* C3 witness: a written result whose content holds the empty list the first
\* scraper gave, pushed whole, and the two items of the second
C3_Witness ==
  /\ pc = "done"
  /\ artifact.written
  /\ artifact.data.metadata.totalItems = 3
  /\ artifact.data.metadata.sources[1].itemsFound = 1
  /\ artifact.data.metadata.sources[2].itemsFound = 2

\* scrapeArticle has just parsed a document for the reference articles[i - 1]
\* and handed back the last of scrapeResults
Extracted == cur \in Adapters /\ lastDoc # NoDoc /\ scrapeResults # <<>>

\* C4: when the title of the document BritishCouncil's scrapeArticle fetched
\* holds a blocking phrase, the item it returns has blocked = true, the
\* explanatory body and no exercises.
C4_BlockedItemIsFlagged ==
  (Extracted /\ cur = BC /\ BCIsBlocked(BCTitle(articles[i - 1], lastDoc))) =>
    LET item == Last(scrapeResults)
    IN /\ "blocked" \in DOMAIN item
       /\ item.blocked = TRUE
       /\ item.body = BCBlockedBody
       /\ item.exercises = <<>>

\* C5: discovery called with a limit returns at most limit references, the
\* hard-coded references included, and scrape and run hand back at most
\* ScrapeLimit items.
C5_AtMostLimit ==
  /\ (entry # "scrapeArticle" /\ usable # -1) => Len(articles) <= limit
  /\ entry = "runAll" => Len(scrapeResults) <= ScrapeLimit
  /\ runRet.kind = "value" => Len(runRet.data) <= ScrapeLimit

\* C5 witness: getReadingArticles(2) found nothing on the level pages and
\* returned two of the three hard-coded references
C5_Witness ==
  /\ entry = "discover" /\ cur = BC /\ rpc = "done"
  /\ limit = 2
  /\ usable = 0
  /\ articles = SubSeq(BCFallback, 1, 2)

\* the cap on an item's exercises, by source
MaxExercises(source) == IF source = BC THEN BCMaxExercises ELSE BNMaxExercises

\* no level was detected for a reference: no digit in the URL and no level
\* link (BreakingNews), no level given and no CEFR code in the URL
\* (BritishCouncil)
Undetected(a, ref) ==
  IF a = BN THEN SegDigit(Last(BNArticleUrl(ref))) = "" /\ ref.levels = <<>>
            ELSE ref.level = "" /\ UrlCefr(ref.url) = ""

ItemOk(item) ==
  /\ item.source \in Adapters
  /\ item.level # ""
  /\ item.body.len <= MaxBody
  /\ Len(item.exercises) <= MaxExercises(item.source)
  /\ \A k \in 1..Len(item.exercises) :
       item.exercises[k].type = "comprehension" =>
         Len(item.exercises[k].options) <= MaxOptions

\* C6: every item scrapeArticle returns has a source, a non-empty level
\* ('Unknown' when none was detected), a body of at most 5000 characters, at
\* most 10 (BritishCouncil) or 20 (BreakingNewsEnglish) exercises, and at
\* most 4 options per comprehension question.
C6_ItemInvariants ==
  /\ \A k \in 1..Len(scrapeResults) : ItemOk(scrapeResults[k])
  /\ runRet.kind = "value" => \A k \in 1..Len(runRet.data) : ItemOk(runRet.data[k])
  /\ (Extracted /\ Undetected(cur, articles[i - 1])) =>
       Last(scrapeResults).level = "Unknown"

\* C6 witness: a BritishCouncil item whose body was cut to 5000 characters,
\* with 10 of 11 questions kept and 4 of the first one's options, and no
\* level detected
C6_Witness ==
  /\ entry = "scrapeArticle" /\ cur = BC /\ rpc = "done"
  /\ Extracted
  /\ JoinLen(BCBody(lastDoc).parts) > MaxBody
  /\ Len(BCExercises(lastDoc)) > BCMaxExercises
  /\ scrapeResults[1].body.len = MaxBody
  /\ Len(scrapeResults[1].exercises) = BCMaxExercises
  /\ Len(scrapeResults[1].exercises[1].options) = MaxOptions
  /\ scrapeResults[1].level = "Unknown"

\* C7: the references discovery returns have pairwise different URLs.
C7_NoDuplicateUrls ==
  (entry # "scrapeArticle" /\ usable # -1) =>
    \A j, k \in 1..Len(articles) : j # k => articles[j].url # articles[k].url

\* C8: when discovery found no usable reference (usable = 0: every selector
\* missed on every listing page, or the listing fetch failed), the run of
\* the scraper still returns at least one item.
C8_FallbackGivesAnItem ==
  (entry = "runAll" /\ rpc = "run_done" /\ usable = 0) =>
    /\ runRet.kind = "value"
    /\ Len(runRet.data) >= 1

\* C9: no page is open when fetchPage is not running, returned or threw: a
\* page it opened is closed before it hands back the document or the error.
C9_NoPageLeftOpen ==
  /\ openPages \in {0, 1}
  /\ fpc \in {"none", "call", "returned", "threw"} => openPages = 0

\* C9 witness: page.goto timed out on a page fetchPage had opened; the
\* error is on its way to the caller and no page is open
C9_Witness ==
  /\ fpc = "threw"
  /\ err = LoadMessage("goto")
  /\ openPages = 0

\* the run of adapter a is under way
Running(a) == cur = a /\ rpc # "run_done"

\* C10: in runAll a scraper launches at most one browser, closes no browser
\* it did not launch, and once its run has ended the browser it launched
\* has been closed exactly once and this.browser and this.context are null.
C10_BrowserClosedAfterRun ==
  entry = "runAll" =>
    \A a \in Adapters :
      /\ launched[a] <= 1
      /\ closed[a] <= launched[a]
      /\ ~Running(a) => /\ closed[a] = launched[a]
                        /\ ~browser[a]
                        /\ ~context[a]

\* C10 witness: browser.newContext rejected after the browser was launched;
\* the run ended with that browser closed
C10_Witness ==
  /\ entry = "runAll" /\ rpc = "run_done"
  /\ runRet.kind = "null"
  /\ err = InitMessage("newContext")
  /\ launched[cur] = 1
  /\ closed[cur] = 1
  /\ ~browser[cur]

\* C11: within the run of one adapter, a sleep comes between every two
\* consecutive page fetches, after a fetch that failed too: no page.goto
\* follows a page.goto of the same adapter with no sleep between them.
C11_SleepBetweenFetches == InRun => gap # "same"

\* C12: in runAll a sleep comes between the last page fetch of one adapter
\* and the first of the next: no page.goto follows a page.goto of another
\* adapter with no sleep between them.
C12_SleepBetweenAdapters == entry = "runAll" => gap # "other"

\* C13: runAll calls fs.writeFile on content.json once, only after every
\* scraper has run and been recorded, and writes the whole RunResult; until
\* then the file is as it was before the run.
C13_WrittenOnceAtTheEnd ==
  entry = "runAll" =>
    /\ writes = (IF pc = "done" THEN 1 ELSE 0)
    /\ pc # "done" => artifact = NoArtifact
    /\ pc \in {"write", "done"} =>
         /\ idx > Len(scrapers)
         /\ Len(results.metadata.sources) = Len(scrapers)
         /\ cur = "none"
    /\ artifact.written => artifact.data = results

\* C13 witness: both scrapers gave three items and the result was written,
\* by the one write
C13_Witness ==
  /\ entry = "runAll" /\ pc = "done"
  /\ writes = 1
  /\ artifact.written
  /\ Len(artifact.data.content) = 6
  /\ artifact.data.metadata.sources[1].itemsFound = 3
  /\ artifact.data.metadata.sources[2].itemsFound = 3

\* C14: when fs.writeFile rejected, in runAll and in runSingle alike, the
\* process is not ended by process.exit and the call has returned its
\* results.
C14_WriteFailureDoesNotCrash ==
  writeFailed => exitCode = -1 /\ pc \in {"done", "single_done"}

\* the name runSingle was given is none of the names of scraperMap
Unrecognised == LowerName(argv[1]) \notin ScraperKeys

\* C15: given a name that is not recognised, runSingle prints the valid
\* names and exits with status 1; no browser is launched, no scraper run and
\* no file written.
C15_UnknownNameListedAndExit ==
  (entry = "runSingle" /\ pc # "single" /\ Unrecognised) =>
    /\ listed
    /\ exitCode = 1
    /\ pc = "exit"
    /\ \A a \in Adapters : launched[a] = 0
    /\ cur = "none"
    /\ writes = 0 /\ ~singleFile.written

\* C16: the file runSingle writes holds an array of items, whatever the
\* run gave.
C16_SingleFileIsArray ==
  singleFile.written => singleFile.data.kind = "value"

\* the CEFR codes
CefrCodes == {<<l, d>> : l \in {"A", "B", "C"}, d \in {"1", "2"}}

\* C17: normalizeLevel and normalizeToCEFR are idempotent: called with what
\* they returned they return it again, for CEFR codes in any case, 'Level N',
\* descriptive words, the empty value and unmapped texts; a CEFR code is
\* returned as it is.
C17_NormalizeIdempotent ==
  entry = "normalize" =>
    /\ pc = "returned" => output.values[2] = output.values[1]
    /\ (pc # "call" /\ input.x \in CefrCodes) => output.values[1] = input.x

\* C17 witness: normalizeToCEFR('Level 3') gave 'B1', and 'B1' again when
\* called with that
C17_Witness ==
  /\ entry = "normalize" /\ pc = "returned"
  /\ input.fn = "normalizeToCEFR"
  /\ input.x = <<"L", "e", "v", "e", "l", " ", "3">>
  /\ output.values = << <<"B", "1">>, <<"B", "1">> >>

\* an item that is not flagged as blocked and has a body of more than 100
\* characters
Usable(item) ==
  /\ ~("blocked" \in DOMAIN item /\ item.blocked)
  /\ "body" \in DOMAIN item
  /\ item.body.len > 100

\* C18: whatever the file holds, no item getValidContent,
\* getBestContentForLesson or getAllContentForLevel returns is flagged as
\* blocked or has a body of 100 characters or fewer.
C18_SelectedItemsAreUsable ==
  (entry = "loader" /\ pc = "returned") =>
    IF input.fn = "getBestContentForLesson"
      THEN output.value # NoValue => Usable(output.value)
      ELSE \A k \in 1..Len(output.value) : Usable(output.value[k])

\* C18 witness: of a flagged item, an item with a body of 100 characters and
\* one with a body of 101, getValidContent returned the last only
C18_Witness ==
  /\ entry = "loader" /\ pc = "returned"
  /\ input.fn = "getValidContent"
  /\ input.file.data.content = <<ItemFlagged, ItemShort, ItemAdvanced>>
  /\ output.value = <<ItemAdvanced>>

\* the valid items of a file, and their levels
ValidItems(file) ==
  IF file.kind = "file"
    THEN {file.data.content[k] : k \in {j \in 1..Len(file.data.content) :
                                          getValidItem(file.data.content[j])}}
    ELSE {}

\* two CEFR levels next to each other
Adjacent(a, b) ==
  \E k \in 1..(Len(levelOrder) - 1) : {a, b} = {levelOrder[k], levelOrder[k + 1]}

\* C19: getBestContentForLesson returns null exactly when the file gives no
\* valid item (missing, unreadable or without one); else an item whose
\* normalized level is the normalized level asked for, when a valid one
\* exists; else an item of an adjacent level, when a valid one exists; else
\* a valid item.  The topic does not change that.
C19_FirstNonEmptyTier ==
  (entry = "loader" /\ pc = "returned" /\ input.fn = "getBestContentForLesson") =>
    LET valid == ValidItems(input.file)
        target == normalizeToCEFR(input.targetLevel)
        exact == {item \in valid : normalizeToCEFR(item.level) = target}
        adjacent == {item \in valid : Adjacent(normalizeToCEFR(item.level), target)}
    IN /\ (output.value = NoValue) <=> (valid = {})
       /\ valid # {} => output.value \in valid
       /\ exact # {} => output.value \in exact
       /\ (exact = {} /\ adjacent # {}) => output.value \in adjacent

\* C19 witness: asked for B1 and the topic 'Climate', with an A2 item that
\* has the topic in its body before a 'Level 3' item, the 'Level 3' item is
\* returned
C19_Witness ==
  /\ entry = "loader" /\ pc = "returned"
  /\ input.fn = "getBestContentForLesson"
  /\ input.targetLevel = <<"B", "1">>
  /\ input.topic = "Climate"
  /\ input.file.kind = "file"
  /\ input.file.data.content = <<ItemReading, ItemNews>>
  /\ output.value = ItemNews

\* C20: the RunResult runAll writes and returns, written with
\* JSON.stringify and read back with JSON.parse as loadScrapedContent does,
\* gives an equal value: the same metadata and the same content in the same
\* order.
C20_RoundTrip ==
  (entry = "runAll" /\ pc \in {"write", "done"}) =>
    JSONparse(JSONstringify(JsResults(results))) = JsResults(results)

\* C20 witness: a written RunResult with the empty array of the first
\* scraper, an item with comprehension exercises and the item of a blocked
\* page, without exercises
C20_Witness ==
  /\ entry = "runAll" /\ pc = "done"
  /\ artifact.written
  /\ Len(results.content) = 3
  /\ "array" \in DOMAIN results.content[1]
  /\ Len(results.content[2].exercises) > 0
  /\ results.content[3].body = BCBlockedBody
  /\ JsResults(results).members[2].value.t = "array"

\* the terms the filters of the paragraphs look for (lines 217-219, 429-433)
BoilerplateTerms ==
  {"©", "Click", "Subscribe", "Help this site", "Copyright", "Log in", "Sign up"}

\* lines 210-230: the paragraphs the selectors tried matched, up to the
\* selector that gave the body
RECURSIVE BCCandidates(_)
BCCandidates(content) ==
  IF content = <<>> THEN <<>>
  ELSE IF Len(SelectSeq(Head(content), BCKeepParagraph)) > 0
         THEN Head(content)
         ELSE Head(content) \o BCCandidates(Tail(content))

\* the paragraphs scrapeArticle looked at, and those it joined into the body
Candidates(a, doc) == IF a = BN THEN doc.paragraphs ELSE BCCandidates(doc.content)
Aggregated(a, doc) ==
  IF a = BN THEN SelectSeq(doc.paragraphs, BNKeepParagraph) ELSE BCContent(doc.content).parts

InSeq(x, seq) == \E k \in 1..Len(seq) : seq[k] = x

\* C21: in the body extraction of both scrapers, a paragraph of length 40
\* that contains 'Subscribe' is left out of the paragraphs joined into the
\* body, and a paragraph of length 40 that contains none of the boilerplate
\* terms is among them.
C21_FortyCharacterParagraphs ==
  (entry = "scrapeArticle" /\ Extracted
     /\ ~(cur = BC /\ BCIsBlocked(BCTitle(articles[i - 1], lastDoc)))) =>
    \A k \in 1..Len(Candidates(cur, lastDoc)) :
      LET text == Candidates(cur, lastDoc)[k]
      IN text.len = 40 =>
           /\ includes(text, "Subscribe") => ~InSeq(text, Aggregated(cur, lastDoc))
           /\ text.has \cap BoilerplateTerms = {} => InSeq(text, Aggregated(cur, lastDoc))

\* the calls of scrapeArticle that returned an item, by index of the reference
Returned(atts) ==
  LET ok(k) == "threw" \notin DOMAIN atts[k]
  IN SelectSeq([k \in 1..Len(atts) |-> k], ok)

\* item has every field of built, with the same value
Extends(item, built) == \A f \in DOMAIN built : f \in DOMAIN item /\ item[f] = built[f]

\* run()'s scrape has ended, after discovery returned
ScrapeEnded == rpc \in {"run_close", "run_catch", "run_done"} /\ usable # -1

\* C22: in scrape(), a scrapeArticle call that throws is caught and skipped:
\* whichever calls throw, scrapeArticle is called for every reference
\* discovery returned, and the list returned holds exactly the items of the
\* calls that did not throw, in the order of the references.
C22_FailedItemsSkipped ==
  InRun =>
    /\ Len(attempts) = i - 1
    /\ ScrapeEnded => Len(attempts) = Len(articles)
    /\ Len(scrapeResults) = Len(Returned(attempts))
    /\ \A m \in 1..Len(scrapeResults) :
         LET k == Returned(attempts)[m]
         IN /\ scrapeResults[m].url = articles[k].url
            /\ Extends(scrapeResults[m], attempts[k])
    /\ (runRet.kind = "value" /\ cur # "none") => runRet.data = scrapeResults

\* C22 witness: of three references the second one's page failed to load,
\* and run() returned the items of the first and the third
C22_Witness ==
  /\ InRun /\ rpc = "run_done"
  /\ Len(articles) = 3
  /\ Returned(attempts) = <<1, 3>>
  /\ runRet.kind = "value"
  /\ Len(runRet.data) = 2
  /\ runRet.data[2].url = articles[3].url

\* the place of a scraper in the list of line 757
Rank(name) == CHOOSE k \in 1..Len(scrapers) : scrapers[k] = name

\* the items of content, the elements that are not items left out
Items(content) == SelectSeq(content, IsItem)

\* C23: content is in the order the scrapers ran and, for one scraper, in
\* the order discovery returned the references: runAll only appends to
\* content, what it appends for a scraper are the items of its references
\* in the order of the references, and no item of an earlier scraper of the
\* list comes after an item of a later one.
C23_ContentInOrder ==
  [][entry = "runAll" =>
       LET old == results.content
           new == results'.content
           added == SubSeq(new, Len(old) + 1, Len(new))
       IN /\ Len(new) >= Len(old)
          /\ SubSeq(new, 1, Len(old)) = old
          /\ \A m \in 1..Len(Items(added)) :
               /\ Items(added)[m].source = scrapers[idx]
               /\ Items(added)[m].url = articles[Returned(attempts)[m]].url
          /\ \A m, n \in 1..Len(Items(new)) :
               m < n => Rank(Items(new)[m].source) <= Rank(Items(new)[n].source)]_vars

\* C23 witness: three items of the first scraper followed by the items of
\* the first and the third reference of the second, whose second reference
\* failed
C23_Witness ==
  /\ entry = "runAll" /\ pc = "done"
  /\ Len(results.content) = 5
  /\ \A m \in 1..3 : results.content[m].source = BN
  /\ results.content[4].source = BC /\ results.content[5].source = BC
  /\ results.content[4].url = BCFallback[1].url
  /\ results.content[5].url = BCFallback[3].url

\* the browsers open: launched and not closed
OpenBrowsers == {a \in Adapters : launched[a] > closed[a]}

\* C24: in runAll at most one scraper's run is under way, at most one
\* browser is open and at most one page is open: the browser of a scraper
\* is closed before the next scraper launches its own, only the scraper
\* that runs has a browser, and a page is open only inside the fetchPage
\* call that opened it.
C24_OneAtATime ==
  entry = "runAll" =>
    /\ Len(runLog) - Len(results.metadata.sources) \in {0, 1}
    /\ Cardinality(OpenBrowsers) <= 1
    /\ \A a \in Adapters : (browser[a] \/ a \in OpenBrowsers) => Running(a)
    /\ \A a, b \in Adapters :
         (Rank(a) < Rank(b) /\ launched[b] > 0) => a \notin OpenBrowsers
    /\ openPages <= 1
    /\ openPages = 1 => /\ fpc \in {"opened", "try_close", "catch_close"}
                        /\ cur \in OpenBrowsers

\* C24 witness: the second scraper has a page open in its browser, after the
\* first one's run ended with its browser closed
C24_Witness ==
  /\ entry = "runAll" /\ cur = BC
  /\ fpc = "opened" /\ openPages = 1
  /\ launched[BN] = 1 /\ closed[BN] = 1
  /\ OpenBrowsers = {BC}
  /\ runLog = <<BN, BC>>

\* C25: a scraper whose run returned an empty list adds nothing to content
\* and is recorded with status 'no_data' and itemsFound 0, never 'success':
\* every element of content is an item, never a list.
C25_EmptyListIsNoData ==
  [][(entry = "runAll" /\ pc = "run" /\ pc' = "loop"
        /\ runRet.kind = "value" /\ Len(runRet.data) = 0) =>
       /\ results'.content = results.content
       /\ Last(results'.metadata.sources).status = "no_data"
       /\ Last(results'.metadata.sources).itemsFound = 0
       /\ \A k \in 1..Len(results'.content) : IsItem(results'.content[k])]_vars

\* a key of levelMap occurs in the text
HasLevelWord(lower) == \E k \in 1..Len(levelMap) : strIncludes(lower, levelMap[k][1])

\* C26: normalizeLevel gives for every word of levelMap the value levelMap
\* holds for it (beginner A1, elementary A2, pre-intermediate and
\* intermediate B1, upper-intermediate and 'upper intermediate' B2, advanced
\* C1), and gives back unchanged a text with neither a CEFR code nor a word
\* of levelMap in it.
C26_LevelWordsMapped ==
  (entry = "normalize" /\ pc # "call" /\ input.fn = "normalizeLevel") =>
    LET lower == trim(toLowerCase(input.x))
    IN /\ \A k \in 1..Len(levelMap) :
            lower = levelMap[k][1] => output.values[1] = levelMap[k][2]
       /\ (input.x # <<>> /\ CefrAt(lower) = {} /\ ~HasLevelWord(lower)) =>
            output.values[1] = input.x

\* the characters of the level of an item
Chars(level) ==
  CASE level = "Level 0" -> <<"L", "e", "v", "e", "l", " ", "0">>
    [] level = "Level 3" -> <<"L", "e", "v", "e", "l", " ", "3">>
    [] level = "Level 4" -> <<"L", "e", "v", "e", "l", " ", "4">>
    [] level = "Level 6" -> <<"L", "e", "v", "e", "l", " ", "6">>
    [] level = "Harder"  -> <<"H", "a", "r", "d", "e", "r">>
    [] level = "A1"      -> <<"A", "1">>
    [] level = "A2"      -> <<"A", "2">>
    [] level = "B1"      -> <<"B", "1">>
    [] level = "B2"      -> <<"B", "2">>
    [] level = "C1"      -> <<"C", "1">>
    [] OTHER             -> Unknown

\* 'level N', in lower case
LevelN(n) == <<"l", "e", "v", "e", "l", " ", Digits[n + 1]>>

\* the CEFR level the claim gives for 'Level N'
CefrOfLevel(n) ==
  CASE n <= 1       -> <<"A", "1">>
    [] n = 2        -> <<"A", "2">>
    [] n \in {3, 4} -> <<"B", "1">>
    [] n = 5        -> <<"B", "2">>
    [] OTHER        -> <<"C", "1">>

\* an item with content: not that of a blocked page, and with a body the
\* Content Loader accepts
RealContent(item) == "blocked" \notin DOMAIN item /\ item.body.len > 100

\* C27: the Content Loader brings a level to CEFR before it compares it:
\* 'Level N' gives A1 for N 0 or 1, A2 for 2, B1 for 3 or 4, B2 for 5 and C1
\* for 6 or more, a CEFR code in any case gives the code in upper case, and
\* so the level of every item with content a scraper returns is compared as
\* a CEFR code by filterByLevel and filterByApproximateLevel.
C27_LevelsComparedAsCefr ==
  /\ (entry = "normalize" /\ pc # "call" /\ input.fn = "normalizeToCEFR") =>
       /\ \A n \in 0..9 :
            toLowerCase(input.x) = LevelN(n) => output.values[1] = CefrOfLevel(n)
       /\ toUpperCase(input.x) \in CefrCodes => output.values[1] = toUpperCase(input.x)
  /\ \A k \in 1..Len(scrapeResults) :
       RealContent(scrapeResults[k]) =>
         InSeq(normalizeToCEFR(Chars(scrapeResults[k].level)), levelOrder)

\* C28: an item is not modified once scrapeArticle has returned it: the
\* loop of scrape() and runAll add and change no field, so the items scrape()
\* holds, run() returns and runAll puts in content are the items as
\* scrapeArticle returned them.
C28_ItemNotModified ==
  InRun =>
    \A m \in 1..Len(scrapeResults) :
      LET built == attempts[Returned(attempts)[m]]
      IN /\ DOMAIN scrapeResults[m] = DOMAIN built
         /\ Extends(scrapeResults[m], built)

\* C29: for integers min <= max, sleep(min, max) waits a whole number of
\* milliseconds from min to max, and every number from min to max is the
\* delay for some value of Math.random() (when Math.random() takes at least
\* as many values as there are numbers from min to max); without arguments
\* the bounds are this.minDelay and this.maxDelay: 2000 and 5000, or 3000 and
\* 6000 for BritishCouncil.
C29_DelayInRange ==
  entry = "sleep" =>
    LET lo == IF input.args = NoArgs
                THEN (IF input.a = BC THEN 3000 ELSE 2000) ELSE input.args[1]
        hi == IF input.args = NoArgs
                THEN (IF input.a = BC THEN 6000 ELSE 5000) ELSE input.args[2]
    IN /\ pc = "returned" => output.delay \in lo..hi
       /\ hi - lo + 1 <= RandomSteps =>
            \A d \in lo..hi :
              \E r \in 0..(RandomSteps - 1) :
                sleepDelay(r, SleepMin(input.a, input.args),
                           SleepMax(input.a, input.args)) = d

\* C29 witness: sleep(1, 3) waited 3 milliseconds, the largest delay
C29_Witness ==
  /\ entry = "sleep" /\ pc = "returned"
  /\ input.args = <<1, 3>>
  /\ output.delay = 3

\* C30: in BritishCouncil's scrapeArticle the fallback to the paragraphs of
\* the main content only improves the body: when the selectors gave a body
\* that is not empty and shorter than 100 characters, the body after the
\* fallback is not shorter than that one, and is not empty.
C30_FallbackOnlyImproves ==
  (entry = "scrapeArticle" /\ cur = BC /\ Extracted
     /\ ~BCIsBlocked(BCTitle(articles[i - 1], lastDoc))) =>
    LET before == BCContent(lastDoc.content)
        after == BCMainFallback(lastDoc, before)
    IN (before.len > 0 /\ before.len < 100) =>
         /\ after.len >= before.len
         /\ after.len > 0
         /\ scrapeResults[1].body.len >= before.len

====
